---- MODULE Spec2Model ----
(***************************************************************************)
(* Model of the movie decoding pipeline of src/movie_decode.c: the ring    *)
(* buffers, the decoder worker thread (DecoderThread) and the main-thread  *)
(* API (MovieDecode_Update, _SetPosition, _Seek, _GetImage,                *)
(* _SetImageFormat, _Stop).                                                *)
(*                                                                         *)
(* Threads.  Every main-thread API call that runs with worker.mutex held,  *)
(* or that touches only main-thread data, is one atomic action.  The       *)
(* worker is cut at every point where it releases worker.mutex, and in     *)
(* particular between its decision to wait and the call of I_hold_cond.    *)
(* I_wake_one_cond wakes the worker only if it is blocked in I_hold_cond   *)
(* at that moment: a signal sent while nobody waits is lost.               *)
(***************************************************************************)
EXTENDS Integers, Sequences, FiniteSets, TLC

\* ------------------------------------------------------------------------
\* Program constants (movie_decode.c:27-35)
\* ------------------------------------------------------------------------
STREAM_BUFFER_TIME == 4000
SAMPLE_RATE == 44100
MAX_AUDIO_DESYNC == 200
MAX_SEEK_DISTANCE == 10000

\* NUM_PACKETS is 32 in the source; the packet rings are scaled down here.
NUM_PACKETS == 2
POST_MAX_HEIGHT == 254
POST_BASE_BYTES == 4

\* ------------------------------------------------------------------------
\* The movie that is played (the demuxer's and the decoders' input)
\* ------------------------------------------------------------------------
\* The worker decodes video frames while nextframeid is below MaxFrameId.
MaxFrameId == 3

\* The movie with which the player is started: its video stream (time base
\* 1/3 s, four frames, one every two seconds, every second frame a
\* keyframe) and its audio stream (time base 1/1000 s, frames of 96000
\* input samples at 48000 Hz, two seconds each).
Movie ==
    [video |-> [index |-> 0, tb_num |-> 1, tb_den |-> 3, fps_num |-> 1, fps_den |-> 2,
                nb_frames |-> 4, frame_duration |-> 6, keyint |-> 2],
     audio |-> [index |-> 1, tb_num |-> 1, tb_den |-> 1000, nb_samples |-> 96000,
                sample_rate |-> 48000, frame_duration |-> 2000, channels |-> 2]]

\* A movie with shorter frames: a video frame every 4/3 s (4 ticks), so
\* that the video rings have three slots, and audio frames of one second,
\* so that the audio rings have four.
FastMovie ==
    [video |-> [index |-> 0, tb_num |-> 1, tb_den |-> 3, fps_num |-> 3, fps_den |-> 4,
                nb_frames |-> 4, frame_duration |-> 4, keyint |-> 2],
     audio |-> [index |-> 1, tb_num |-> 1, tb_den |-> 1000, nb_samples |-> 48000,
                sample_rate |-> 48000, frame_duration |-> 1000, channels |-> 2]]

\* A movie without audio: av_find_best_stream finds no audio stream, the
\* index is negative, and movie->audiostream.stream and the audio codec
\* context are NULL.  The packets of stream 1 belong to no decoded stream.
SilentMovie == [video |-> Movie.video, audio |-> [index |-> -1]]

VARIABLE file              \* the movie file that was opened (formatcontext)

\* movie->videostream and movie->audiostream as InitialiseDemuxing found them.
VideoStream == file.video
AudioStream == file.audio

\* movie->audiostream.stream != NULL
HasAudio == AudioStream.index >= 0

\* The file: packets in groups of three, one video packet, one audio
\* packet and one packet of a third stream.
NumPackets == 3 * VideoStream.nb_frames

\* The positions (ms) the game sets, and the image formats it asks for.
Positions == {0, 3000, 6000}
FormatsRequested == {TRUE}

\* Packet i of the file: its stream and the number of its frame.
PacketStream(i) == i % 3
PacketFrame(i) == i \div 3
VideoPTS(i) == PacketFrame(i) * VideoStream.frame_duration
AudioPTS(i) == PacketFrame(i) * AudioStream.frame_duration
IsKeyframe(i) == PacketStream(i) = VideoStream.index /\ PacketFrame(i) % VideoStream.keyint = 0

NoFrame == -1
NullImage == 0

\* ------------------------------------------------------------------------
\* TIME CONVERSION (movie_decode.c:115-176)
\* ------------------------------------------------------------------------
\* A faulty av_rescale_q: the quotient is truncated.
av_rescale_q_Truncating(a, bnum, bden, cnum, cden) ==
    LET b == bnum * cden
        c == cnum * bden
    IN  IF a < 0 THEN 0 - ((0 - a) * b) \div c ELSE (a * b) \div c

\* av_rescale_q(a, bq, cq): a * bq / cq rounded to nearest, ties away from 0.
av_rescale_q(a, bnum, bden, cnum, cden) ==
    LET b == bnum * cden
        c == cnum * bden
        r(x) == (x * b + c \div 2) \div c
    IN  IF a < 0 THEN 0 - r(0 - a) ELSE r(a)

PTSToSamples(pts) ==
    av_rescale_q(pts, AudioStream.tb_num, AudioStream.tb_den, 1, SAMPLE_RATE)

SamplesToPTS(numsamples) ==
    av_rescale_q(numsamples, 1, SAMPLE_RATE, AudioStream.tb_num, AudioStream.tb_den)

SamplesToMS(numsamples) == av_rescale_q(numsamples, 1, SAMPLE_RATE, 1, 1000)

MSToSamples(ms) == av_rescale_q(ms, 1, 1000, 1, SAMPLE_RATE)

VideoPTSToMS(pts) ==
    av_rescale_q(pts, VideoStream.tb_num, VideoStream.tb_den, 1, 1000)

MSToVideoPTS(ms) ==
    av_rescale_q(ms, 1, 1000, VideoStream.tb_num, VideoStream.tb_den)

MSToAudioPTS(ms) ==
    av_rescale_q(ms, 1, 1000, AudioStream.tb_num, AudioStream.tb_den)

\* F applied to the value of x: x is computed once, as a C statement
\* computes its operand once before the next statement reads it.
Then(x, F(_)) == CHOOSE r \in {F(v) : v \in {x}} : TRUE

Max(a, b) == IF a > b THEN a ELSE b
Min(a, b) == IF a < b THEN a ELSE b
Abs(a) == IF a < 0 THEN 0 - a ELSE a

\* ------------------------------------------------------------------------
\* CIRCULAR BUFFER (movie_decode.c:41-109)
\* A ring is its capacity and its live slots from head to tail (data);
\* size is Len(data).  Slot i of the source, at physical offset
\* (start + i) % capacity, is data[i + 1].
\* ------------------------------------------------------------------------
InitialiseBuffer(capacity) == [capacity |-> capacity, data |-> <<>>]

CloneBuffer(src) == src

BufferSize(buffer) == Len(buffer.data)

\* Slot index of the ring, 0-based as in the source.
GetBufferSlot(buffer, index) == buffer.data[index + 1]

PeekBuffer(buffer) == GetBufferSlot(buffer, 0)

\* size++ and the caller fills the slot at the tail.
EnqueueBuffer(buffer, slot) == [buffer EXCEPT !.data = Append(@, slot)]

DequeueBuffer(buffer) == [buffer EXCEPT !.data = Tail(@)]

\* Moves the head slot of src to the tail of dst (memcpy of the slot).
DequeueBufferIntoBuffer(dst, src) ==
    [dst |-> EnqueueBuffer(dst, PeekBuffer(src)), src |-> DequeueBuffer(src)]

\* What a frame slot holds once it is back in a pool.  The source copies
\* the whole slot, but the id, pts, duration, numsamples and
\* firstsampleposition of a pooled slot are never read before
\* ParseVideoFrame, ParseAudioFrame or PollAudioFrameQueue overwrite them,
\* so the model keeps only the payload of a pooled slot.
Pooled(slot) ==
    IF "image" \in DOMAIN slot
    THEN [id |-> 0, pts |-> 0, duration |-> 0, image |-> slot.image]
    ELSE [pts |-> 0, numsamples |-> 0, firstsampleposition |-> 0, samples |-> slot.samples]

\* DequeueBufferIntoBuffer with a frame pool as its destination.
DequeueBufferIntoPool(framepool, src) ==
    [dst |-> EnqueueBuffer(framepool, Pooled(PeekBuffer(src))), src |-> DequeueBuffer(src)]

RECURSIVE DequeueWholeBufferIntoPool(_, _)
DequeueWholeBufferIntoPool(framepool, src) ==
    IF BufferSize(src) > 0
    THEN Then(DequeueBufferIntoPool(framepool, src),
              LAMBDA m : DequeueWholeBufferIntoPool(m.dst, m.src))
    ELSE [dst |-> framepool, src |-> src]

RECURSIVE DequeueWholeBufferIntoBuffer(_, _)
DequeueWholeBufferIntoBuffer(dst, src) ==
    IF BufferSize(src) > 0
    THEN Then(DequeueBufferIntoBuffer(dst, src),
              LAMBDA m : DequeueWholeBufferIntoBuffer(m.dst, m.src))
    ELSE [dst |-> dst, src |-> src]

\* ------------------------------------------------------------------------
\* The ring as the source stores it (movie_decode.c:40-109): capacity,
\* slotsize, start, size and the bytes of data.  Nothing in these functions
\* compares size with 0 or with capacity, or one slotsize with another.
\* ------------------------------------------------------------------------
\* The largest ring that is tried, and how far beyond [0, capacity] the size
\* of a ring is followed.
MaxRingCapacity == 2
MaxMisuse == 2

\* The NULL GetBufferSlot returns for a negative index.
NullSlot == -1

RawInitialiseBuffer(capacity, slotsize) ==
    [capacity |-> capacity, slotsize |-> slotsize, start |-> 0, size |-> 0,
     data |-> [i \in 1..(capacity * slotsize) |-> 0]]

\* The byte offset of slot index in data.
RawGetBufferSlot(buffer, index) ==
    IF index < 0 THEN NullSlot
    ELSE ((buffer.start + index) % buffer.capacity) * buffer.slotsize

RawPeekBuffer(buffer) == RawGetBufferSlot(buffer, 0)

RawEnqueueBuffer(buffer) ==
    LET b == [buffer EXCEPT !.size = @ + 1]
    IN  [buffer |-> b, slot |-> RawGetBufferSlot(b, b.size - 1)]

RawDequeueBuffer(buffer) ==
    [buffer |-> [buffer EXCEPT !.start = (@ + 1) % buffer.capacity, !.size = @ - 1],
     slot |-> RawPeekBuffer(buffer)]

\* memcpy(dstslot, srcslot, src->slotsize) and what the call leaves.  A
\* copy through NULL crashes; a copy that runs past the end of dst.data is
\* undefined: the process crashes or goes on with the bytes of the slot
\* written.
RawDequeueBufferIntoBuffer(dst, src) ==
    LET d == RawDequeueBuffer(src)
        e == RawEnqueueBuffer(dst)
        n == src.slotsize
        copied == [i \in 1..Len(dst.data) |->
                      IF e.slot < i /\ i <= e.slot + n
                      THEN src.data[d.slot + (i - e.slot)]
                      ELSE dst.data[i]]
        moved == [dst |-> [e.buffer EXCEPT !.data = copied], src |-> d.buffer,
                  outcome |-> "running"]
        crashed == [dst |-> e.buffer, src |-> d.buffer, outcome |-> "crashed"]
    IN  IF e.slot = NullSlot THEN {crashed}
        ELSE IF e.slot + n > Len(dst.data) THEN {crashed, moved}
        ELSE {moved}

RECURSIVE RawDequeueWholeBufferIntoBuffer(_, _)
RawDequeueWholeBufferIntoBuffer(dst, src) ==
    IF src.size > 0
    THEN UNION {IF r.outcome = "running"
                THEN RawDequeueWholeBufferIntoBuffer(r.dst, r.src)
                ELSE {r} : r \in RawDequeueBufferIntoBuffer(dst, src)}
    ELSE {[dst |-> dst, src |-> src, outcome |-> "running"]}

\* Two rings a caller passes to these functions, and whether the process
\* still runs.
VARIABLE ring

\* The rings of correct use so far: any capacity, slot size, start and size
\* within [0, capacity]; the bytes of the source ring are all different.
RingInputs ==
    LET Rings(first) ==
            {[capacity |-> c, slotsize |-> z, start |-> s, size |-> n,
              data |-> [i \in 1..(c * z) |-> first * i]] :
                 c \in 1..MaxRingCapacity, z \in 1..2, s \in 0..(MaxRingCapacity - 1),
                 n \in 0..MaxRingCapacity}
        Valid(b) == b.start < b.capacity /\ b.size <= b.capacity
    IN  {[dst |-> d, src |-> s, outcome |-> "running"] :
            d \in {b \in Rings(0) : Valid(b)}, s \in {b \in Rings(1) : Valid(b)}}

\* While a movie plays no caller passes rings of its own.
NoRings ==
    [dst |-> RawInitialiseBuffer(1, 1), src |-> RawInitialiseBuffer(1, 1),
     outcome |-> "running"]

\* A mixer callback that feeds itself from the movie and moves the movie's
\* clock by what it took: where it is in its cycle, the samples it asks for
\* in each cycle, and the cycles it has completed.
VARIABLE cycle

MaxCycles == 203
CycleSamples == {44, 441, 44100}

\* A game without such a callback.
NoCycle == [pc |-> "none", n |-> 0, count |-> 0]

CycleInputs == [pc : {"copy"}, n : CycleSamples, count : {0}]

\* A call of one of the functions of this file on its own: the function's
\* inputs, how far the call has come, and its results.
VARIABLE call

\* While a movie plays no such call is followed.
NoCall == [pc |-> "none"]

\* ------------------------------------------------------------------------
\* MISCELLANEOUS GETTERS (movie_decode.c:182-248)
\* ------------------------------------------------------------------------
GetVideoFrameEndPTS(frame) == frame.pts + frame.duration

GetAudioFrameEndPTS(frame) == frame.pts + SamplesToPTS(frame.numsamples)

GetAudioFrameEndSample(frame) == frame.firstsampleposition + frame.numsamples

\* The first frame of the buffer that holds the sample; -1 when none does.
RECURSIVE FindAudioFrom(_, _, _)
FindAudioFrom(buffer, i, sample) ==
    IF i >= BufferSize(buffer) THEN -1
    ELSE IF /\ GetBufferSlot(buffer, i).firstsampleposition <= sample
            /\ sample < GetAudioFrameEndSample(GetBufferSlot(buffer, i))
         THEN i
    ELSE FindAudioFrom(buffer, i + 1, sample)

FindAudioBufferIndexForPosition(buffer, sample) == FindAudioFrom(buffer, 0, sample)

\* Scans from the tail back; -1 when no frame has pts <= the given pts.
RECURSIVE FindFrom(_, _, _)
FindFrom(buffer, i, pts) ==
    IF i < 0 THEN -1
    ELSE IF GetBufferSlot(buffer, i).pts <= pts THEN i
    ELSE FindFrom(buffer, i - 1, pts)

FindVideoBufferIndexForPosition(buffer, pts) ==
    FindFrom(buffer, BufferSize(buffer) - 1, pts)

\* A faulty IsPTSInVideoBuffer: the end of the last frame is not looked at.
IsPTSInVideoBuffer_NoEnd(buffer, pts) ==
    IF BufferSize(buffer) = 0 THEN FALSE
    ELSE GetBufferSlot(buffer, 0).pts <= pts

IsPTSInVideoBuffer(buffer, pts) ==
    IF BufferSize(buffer) = 0 THEN FALSE
    ELSE LET firstframe == GetBufferSlot(buffer, 0)
             lastframe == GetBufferSlot(buffer, BufferSize(buffer) - 1)
         IN  firstframe.pts <= pts /\ pts < GetVideoFrameEndPTS(lastframe)

\* (a * b) / c for a, b >= 0 and c > 0, as the source's 64-bit arithmetic
\* gives it, computed without a product beyond TLC's 32-bit integers.
MulDiv(a, b, c) == (a \div c) * b + ((a % c) * b) \div c

GetSamplesPerFrame(numsamples, inputsamplerate) ==
    MulDiv(numsamples, SAMPLE_RATE, inputsamplerate) + 1

\* What swr_convert may return for one audio frame: all of its samples at
\* the output rate, or none (a negative value is fatal and is left out).
OutSampleCounts == {0, MulDiv(AudioStream.nb_samples, SAMPLE_RATE, AudioStream.sample_rate)}

\* ------------------------------------------------------------------------
\* State
\* ------------------------------------------------------------------------
VARIABLES
    \* movie_t (main thread)
    position,              \* movie->position (ms)
    audioposition,         \* movie->audioposition (samples, -1 when unset)
    seeking,               \* movie->seeking
    lastvideoframeusedid,  \* movie->lastvideoframeusedid
    usepatches,            \* movie->usepatches and worker->usepatches
    vbuffer,               \* movie->videostream.buffer
    abuffer,               \* movie->audiostream.buffer
    demuxpos,              \* read cursor of formatcontext (next packet of the file)
    mainpc,                \* where the main thread is
    image,                 \* what the last MovieDecode_GetImage returned
    \* moviedecodeworker_t (shared, guarded by worker->mutex)
    vframequeue, vframepool,   \* worker->videostream.framequeue / framepool
    aframequeue, aframepool,   \* worker->audiostream.framequeue / framepool
    ainit,                 \* worker->audiostream.framequeue.data != NULL
    packetqueue, packetpool,
    stopping, flushing, nextframeid,
    \* worker thread only
    vdec, adec,            \* frame each decoder holds ready (file packet index)
    wpc,                   \* where the worker thread is
    wfull,                 \* the worker's local queuesfull
    \* history
    synced,                \* an Update ran since the position was last set
    seenids                \* the ids GetImage returned and has not returned a larger
                           \* id after; the smallest is the id it returned last

mainvars == <<position, audioposition, seeking, lastvideoframeusedid, usepatches,
              vbuffer, abuffer, demuxpos, mainpc, image>>
sharedvars == <<vframequeue, vframepool, aframequeue, aframepool, ainit,
                packetqueue, packetpool, stopping, flushing, nextframeid>>
workervars == <<vdec, adec, wpc, wfull>>
histvars == <<synced, seenids>>
\* What no call of the game and no worker step changes once the movie is open.
envvars == <<file, ring, cycle, call>>
vars == <<mainvars, sharedvars, workervars, histvars, envvars>>

\* ------------------------------------------------------------------------
\* DECODING WORKER INITIALISATION (movie_decode.c:292-433)
\* ------------------------------------------------------------------------
\* One pooled video frame per slot, each with its own image allocation.
RECURSIVE InitialiseImages(_, _)
InitialiseImages(framepool, i) ==
    IF i > framepool.capacity THEN framepool
    ELSE Then(EnqueueBuffer(framepool, [id |-> 0, pts |-> 0, duration |-> 0, image |-> i]),
              LAMBDA pool : InitialiseImages(pool, i + 1))

VideoCapacity ==
    ((STREAM_BUFFER_TIME \div 1000) * VideoStream.fps_num) \div VideoStream.fps_den

InitialiseVideoBuffer == InitialiseBuffer(VideoCapacity)

AudioCapacity ==
    ((STREAM_BUFFER_TIME \div 1000) * AudioStream.sample_rate)
        \div GetSamplesPerFrame(AudioStream.nb_samples, AudioStream.sample_rate)

RECURSIVE InitialiseAudioFrames(_, _)
InitialiseAudioFrames(framepool, i) ==
    IF i > framepool.capacity THEN framepool
    ELSE Then(EnqueueBuffer(framepool,
                  [pts |-> 0, numsamples |-> 0, firstsampleposition |-> 0, samples |-> i]),
              LAMBDA pool : InitialiseAudioFrames(pool, i + 1))

RECURSIVE InitialisePacketQueue(_, _)
InitialisePacketQueue(packetpool_, i) ==
    IF i > packetpool_.capacity THEN packetpool_
    ELSE Then(EnqueueBuffer(packetpool_, [packet |-> i, idx |-> -1]),
              LAMBDA pool : InitialisePacketQueue(pool, i + 1))

\* A ring of a calloc'ed structure that was never initialised.
ZeroBuffer == [capacity |-> 0, data |-> <<>>]

\* The state MovieDecode_Play leaves (movie_decode.c:1034-1055): the movie
\* object is calloc'ed, the video rings and the packet rings are allocated,
\* the audio rings are not yet.
PlayFields ==
    /\ position = 0
    /\ audioposition = 0
    /\ seeking = FALSE
    /\ lastvideoframeusedid = 0
    /\ usepatches = FALSE
    /\ vbuffer = InitialiseVideoBuffer
    /\ abuffer = ZeroBuffer
    /\ demuxpos = 0
    /\ image = NullImage
    /\ vframequeue = CloneBuffer(InitialiseVideoBuffer)
    /\ vframepool = InitialiseImages(CloneBuffer(InitialiseVideoBuffer), 1)
    /\ aframequeue = ZeroBuffer
    /\ aframepool = ZeroBuffer
    /\ ainit = FALSE
    /\ packetqueue = InitialiseBuffer(NUM_PACKETS)
    /\ packetpool = InitialisePacketQueue(CloneBuffer(InitialiseBuffer(NUM_PACKETS)), 1)
    /\ stopping = FALSE
    /\ flushing = FALSE
    /\ nextframeid = 0
    /\ vdec = NoFrame
    /\ adec = NoFrame
    /\ wfull = FALSE
    /\ synced = FALSE
    /\ seenids = {}

\* MovieDecode_Play of a movie with audio returns and the worker thread
\* starts its loop.
MovieDecode_Play == PlayFields /\ mainpc = "idle" /\ wpc = "snap"

\* MovieDecode_Play of a movie without audio: InitialiseAudioConversion
\* (movie_decode.c:397-410) reads channel_layout, sample_fmt and
\* sample_rate through the NULL audio codec context.  The process is killed
\* there, or the values read make swr_alloc_set_opts or swr_init fail
\* (I_Error), or they do not and Play returns.
MovieDecode_Play_NoAudio ==
    /\ PlayFields
    /\ \/ mainpc = "crashed" /\ wpc = "crashed"
       \/ mainpc = "error" /\ wpc = "error"
       \/ mainpc = "idle" /\ wpc = "snap"

\* The player once it has opened movie.
Opened(movie) == file = movie /\ ring = NoRings /\ cycle = NoCycle /\ call = NoCall /\ MovieDecode_Play

Init == Opened(Movie)

\* I_wake_one_cond: the worker returns from I_hold_cond if it is blocked
\* there; otherwise the signal has no effect.
I_wake_one_cond(pc) == IF pc = "waiting" THEN "snap" ELSE pc

\* ------------------------------------------------------------------------
\* MAIN THREAD (movie_decode.c:784-815, 924-1028)
\* The helpers below run inside MovieDecode_Update with worker->mutex held.
\* They work on a record s of the fields they read and write; s.woken tells
\* whether I_wake_one_cond was called, s.error whether I_Error was.
\* ------------------------------------------------------------------------
MovieState ==
    [position |-> position, audioposition |-> audioposition, seeking |-> seeking,
     vbuffer |-> vbuffer, abuffer |-> abuffer, demuxpos |-> demuxpos,
     vframequeue |-> vframequeue, vframepool |-> vframepool,
     aframequeue |-> aframequeue, aframepool |-> aframepool,
     packetqueue |-> packetqueue, packetpool |-> packetpool,
     flushing |-> flushing, woken |-> FALSE, error |-> FALSE]

\* A faulty ReadPacket: the packets of every stream are queued.
ReadPacket_Unfiltered(s) ==
    IF s.demuxpos >= NumPackets
    THEN [s |-> s, more |-> FALSE]
    ELSE LET filled == [PeekBuffer(s.packetpool) EXCEPT !.idx = s.demuxpos]
             pool == [s.packetpool EXCEPT !.data[1] = filled]
             m == DequeueBufferIntoBuffer(s.packetqueue, pool)
         IN  [s |-> [s EXCEPT !.demuxpos = @ + 1, !.packetqueue = m.dst,
                              !.packetpool = m.src, !.woken = TRUE],
              more |-> TRUE]

\* av_read_frame into the packet at the head of the packet pool.  Returns
\* the new state and whether the loop of MovieDecode_Update goes on.
ReadPacket(s) ==
    IF s.demuxpos >= NumPackets
    THEN [s |-> s, more |-> FALSE]                       \* AVERROR_EOF
    ELSE LET filled == [PeekBuffer(s.packetpool) EXCEPT !.idx = s.demuxpos]
             pool == [s.packetpool EXCEPT !.data[1] = filled]
             s1 == [s EXCEPT !.demuxpos = @ + 1]
         IN  IF PacketStream(s.demuxpos) = VideoStream.index
                  \/ PacketStream(s.demuxpos) = AudioStream.index
             THEN LET m == DequeueBufferIntoBuffer(s.packetqueue, pool)
                  IN  [s |-> [s1 EXCEPT !.packetqueue = m.dst, !.packetpool = m.src,
                                        !.woken = TRUE],
                       more |-> TRUE]
             ELSE \* av_packet_unref: the packet stays at the head of the pool
                  [s |-> [s1 EXCEPT !.packetpool.data[1].idx = -1], more |-> TRUE]

\* while (worker->packetpool.size > 0 && ReadPacket(movie));
RECURSIVE ReadPackets(_)
ReadPackets(s) ==
    IF BufferSize(s.packetpool) > 0
    THEN Then(ReadPacket(s), LAMBDA r : IF r.more THEN ReadPackets(r.s) ELSE r.s)
    ELSE s

PollVideoFrameQueue(s) ==
    IF BufferSize(s.vframequeue) # 0
    THEN Then(DequeueWholeBufferIntoBuffer(s.vbuffer, s.vframequeue),
              LAMBDA m : [s EXCEPT !.vbuffer = m.dst, !.vframequeue = m.src,
                                   !.woken = TRUE])
    ELSE s

\* A faulty PollAudioFrameQueue: every firstsampleposition comes from the pts.
PollOneAudioFrame_FromPTS(buffer, framequeue) ==
    LET m == DequeueBufferIntoBuffer(buffer, framequeue)
        n == BufferSize(m.dst)
    IN  [dst |-> [m.dst EXCEPT !.data[n].firstsampleposition =
                                   PTSToSamples(GetBufferSlot(m.dst, n - 1).pts)],
         src |-> m.src]

\* One turn of the inner loop of PollAudioFrameQueue: moves a frame and
\* gives it its firstsampleposition.
PollOneAudioFrame(buffer, framequeue) ==
    LET m == DequeueBufferIntoBuffer(buffer, framequeue)
        n == BufferSize(m.dst)
        frame == GetBufferSlot(m.dst, n - 1)
        fsp == IF n > 1
               THEN LET prevframe == GetBufferSlot(m.dst, n - 2)
                    IN  prevframe.firstsampleposition + prevframe.numsamples
               ELSE PTSToSamples(frame.pts)
    IN  [dst |-> [m.dst EXCEPT !.data[n].firstsampleposition = fsp], src |-> m.src]

RECURSIVE PollAudioFrames(_, _)
PollAudioFrames(buffer, framequeue) ==
    IF BufferSize(framequeue) > 0
    THEN Then(PollOneAudioFrame(buffer, framequeue),
              LAMBDA m : PollAudioFrames(m.dst, m.src))
    ELSE [dst |-> buffer, src |-> framequeue]

PollAudioFrameQueue(s) ==
    IF BufferSize(s.aframequeue) # 0
    THEN Then(PollAudioFrames(s.abuffer, s.aframequeue),
              LAMBDA m : [s EXCEPT !.abuffer = m.dst, !.aframequeue = m.src,
                                   !.woken = TRUE])
    ELSE s

\* A faulty ClearOldestFrame: the frame leaves the buffer and reaches no pool.
ClearOldestVideoFrame_Lost(s) ==
    [s EXCEPT !.vbuffer = DequeueBuffer(s.vbuffer), !.woken = TRUE]

\* ClearOldestFrame for the video and for the audio stream.
ClearOldestVideoFrame(s) ==
    LET m == DequeueBufferIntoPool(s.vframepool, s.vbuffer)
    IN  [s EXCEPT !.vframepool = m.dst, !.vbuffer = m.src, !.woken = TRUE]

ClearOldestAudioFrame(s) ==
    LET m == DequeueBufferIntoPool(s.aframepool, s.abuffer)
    IN  [s EXCEPT !.aframepool = m.dst, !.abuffer = m.src, !.woken = TRUE]

\* A faulty ClearOldVideoFrames: an if where the source has a while.
ClearOldVideoFrames_Once(s) ==
    LET limit == MSToVideoPTS(s.position - STREAM_BUFFER_TIME \div 2)
    IN  IF BufferSize(s.vbuffer) > 0 /\ PeekBuffer(s.vbuffer).pts < limit
        THEN ClearOldestVideoFrame(s)
        ELSE s

RECURSIVE ClearOldVideoFrames(_)
ClearOldVideoFrames(s) ==
    LET limit == MSToVideoPTS(s.position - STREAM_BUFFER_TIME \div 2)
    IN  IF BufferSize(s.vbuffer) > 0 /\ PeekBuffer(s.vbuffer).pts < limit
        THEN Then(ClearOldestVideoFrame(s), ClearOldVideoFrames)
        ELSE s

RECURSIVE ClearOldAudioFrames(_)
ClearOldAudioFrames(s) ==
    LET limit == Max(MSToAudioPTS(s.position - STREAM_BUFFER_TIME \div 2), 0)
    IN  IF BufferSize(s.abuffer) > 0 /\ GetAudioFrameEndPTS(PeekBuffer(s.abuffer)) < limit
        THEN Then(ClearOldestAudioFrame(s), ClearOldAudioFrames)
        ELSE s

RECURSIVE ClearAllVideoFrames(_)
ClearAllVideoFrames(s) ==
    IF BufferSize(s.vbuffer) # 0 THEN Then(ClearOldestVideoFrame(s), ClearAllVideoFrames) ELSE s

RECURSIVE ClearAllAudioFrames(_)
ClearAllAudioFrames(s) ==
    IF BufferSize(s.abuffer) # 0 THEN Then(ClearOldestAudioFrame(s), ClearAllAudioFrames) ELSE s

ClearAllFrames(s) == Then(ClearAllVideoFrames(s), ClearAllAudioFrames)

\* avformat_seek_file(ctx, video, min_ts, ts, max_ts = ts): the read cursor
\* goes to the last keyframe with min_ts <= pts <= ts; -1 when there is none.
SeekFile(min_ts, ts) ==
    LET ok == {i \in 0..(NumPackets - 1) :
                  IsKeyframe(i) /\ min_ts <= VideoPTS(i) /\ VideoPTS(i) <= ts}
    IN  IF ok = {} THEN -1 ELSE CHOOSE i \in ok : \A j \in ok : j <= i

FlushDecodeWorker(s) ==
    Then(DequeueWholeBufferIntoBuffer(s.packetpool, s.packetqueue),
         LAMBDA m : [s EXCEPT !.flushing = TRUE, !.packetpool = m.dst,
                              !.packetqueue = m.src, !.woken = TRUE])

\* A faulty Seek: the consumer buffers are not cleared.
Seek_KeepFrames(s) ==
    LET at == SeekFile(MSToVideoPTS(Max(s.position - 5000, 0)), MSToVideoPTS(s.position))
    IN  IF at < 0
        THEN [s EXCEPT !.seeking = TRUE, !.error = TRUE]
        ELSE FlushDecodeWorker([s EXCEPT !.seeking = TRUE, !.demuxpos = at])

Seek(s) ==
    LET at == SeekFile(MSToVideoPTS(Max(s.position - 5000, 0)), MSToVideoPTS(s.position))
    IN  Then(ClearAllFrames([s EXCEPT !.seeking = TRUE]),
             LAMBDA s1 : IF at < 0
                         THEN [s1 EXCEPT !.error = TRUE]       \* "FFmpeg: cannot seek"
                         ELSE FlushDecodeWorker([s1 EXCEPT !.demuxpos = at]))

\* UpdateSeeking, its three parts in turn: the end of a seek, the start of
\* one, and the audio position that is given up when it is too far off.
StopSeeking(s) ==
    LET n == BufferSize(s.vbuffer)
    IN  IF s.seeking /\ n > 0
        THEN LET lastframe == GetBufferSlot(s.vbuffer, n - 1)
                 target == s.position + 250
                 targetdist == target - VideoPTSToMS(GetVideoFrameEndPTS(lastframe))
             IN  IF targetdist <= 0 \/ targetdist > MAX_SEEK_DISTANCE
                 THEN [s EXCEPT !.seeking = FALSE] ELSE s
        ELSE s

\* A faulty UpdateSeeking: a seek that is under way does not hold back a
\* new Seek.
StartSeeking_WhileSeeking(s) ==
    IF ~(IsPTSInVideoBuffer(s.vbuffer, MSToVideoPTS(s.position))
         \/ s.flushing \/ BufferSize(s.vbuffer) = 0)
    THEN Seek(s) ELSE s

StartSeeking(s) ==
    IF ~(IsPTSInVideoBuffer(s.vbuffer, MSToVideoPTS(s.position))
         \/ s.seeking \/ s.flushing \/ BufferSize(s.vbuffer) = 0)
    THEN Seek(s) ELSE s

\* A faulty UpdateSeeking: the audio position is given up 1 ms later.
DropAudioPosition_Late(s) ==
    IF s.audioposition # -1
       /\ Abs(SamplesToMS(s.audioposition) - s.position) > MAX_AUDIO_DESYNC + 1
    THEN [s EXCEPT !.audioposition = -1]
    ELSE s

DropAudioPosition(s) ==
    IF s.audioposition # -1
       /\ Abs(SamplesToMS(s.audioposition) - s.position) > MAX_AUDIO_DESYNC
    THEN [s EXCEPT !.audioposition = -1]
    ELSE s

UpdateSeeking(s) == Then(Then(StopSeeking(s), StartSeeking), DropAudioPosition)

\* A faulty MovieDecode_Update: the frame queues are polled during a flush.
PollFrameQueues_Always(s) == Then(PollVideoFrameQueue(s), PollAudioFrameQueue)

\* The two polls of MovieDecode_Update, skipped while a flush is pending.
PollFrameQueues(s) ==
    IF ~s.flushing THEN Then(PollVideoFrameQueue(s), PollAudioFrameQueue) ELSE s

\* A faulty end of MovieDecode_Update: the old video frames are kept.
ClearOldFrames_AudioOnly(s) ==
    IF ~s.error /\ BufferSize(s.vbuffer) > 0 THEN ClearOldAudioFrames(s) ELSE s

\* The end of MovieDecode_Update; after I_Error nothing more runs.
ClearOldFrames(s) ==
    IF ~s.error /\ BufferSize(s.vbuffer) > 0
    THEN Then(ClearOldVideoFrames(s), ClearOldAudioFrames)
    ELSE s

\* The body of MovieDecode_Update (movie_decode.c:1094-1118).
UpdateBody(s) ==
    Then(Then(Then(ReadPackets(s), PollFrameQueues), UpdateSeeking), ClearOldFrames)

\* ------------------------------------------------------------------------
\* API (movie_decode.c:1057-1164)
\* ------------------------------------------------------------------------
\* The body of MovieDecode_SetPosition(movie, ms).
SetPosition(ms) ==
    /\ mainpc = "idle"
    /\ position' = ms
    /\ audioposition' = IF audioposition = -1 THEN MSToSamples(ms) ELSE audioposition
    /\ synced' = FALSE
    /\ UNCHANGED <<seeking, lastvideoframeusedid, usepatches, vbuffer, abuffer, demuxpos,
                   mainpc, image, sharedvars, workervars, seenids>>

\* MovieDecode_SetPosition(movie, ms)
MovieDecode_SetPosition ==
    /\ \E ms \in Positions : SetPosition(ms)
    /\ UNCHANGED envvars

\* MovieDecode_Seek(movie, ms): the same body as MovieDecode_SetPosition.
MovieDecode_Seek ==
    /\ mainpc = "idle"
    /\ \E ms \in Positions :
          /\ position' = ms
          /\ audioposition' = IF audioposition = -1 THEN MSToSamples(ms) ELSE audioposition
    /\ synced' = FALSE
    /\ UNCHANGED <<envvars, seeking, lastvideoframeusedid, usepatches, vbuffer, abuffer, demuxpos,
                   mainpc, image, sharedvars, workervars, seenids>>

\* The body of MovieDecode_Update(movie): one atomic step, worker->mutex is
\* held throughout.
Update ==
    /\ mainpc = "idle"
    /\ \E s \in {Then(MovieState, UpdateBody)} :
           /\ position' = s.position
           /\ audioposition' = s.audioposition
           /\ seeking' = s.seeking
           /\ vbuffer' = s.vbuffer
           /\ abuffer' = s.abuffer
           /\ demuxpos' = s.demuxpos
           /\ vframequeue' = s.vframequeue
           /\ vframepool' = s.vframepool
           /\ aframequeue' = s.aframequeue
           /\ aframepool' = s.aframepool
           /\ packetqueue' = s.packetqueue
           /\ packetpool' = s.packetpool
           /\ flushing' = s.flushing
           /\ mainpc' = IF s.error THEN "error" ELSE "idle"
           /\ wpc' = IF s.woken THEN I_wake_one_cond(wpc) ELSE wpc
    /\ synced' = TRUE
    /\ UNCHANGED <<lastvideoframeusedid, usepatches, image, ainit, stopping, nextframeid,
                   vdec, adec, wfull, seenids>>

\* MovieDecode_Update(movie)
MovieDecode_Update == Update /\ UNCHANGED envvars

\* A faulty MovieDecode_GetImage: the id of the frame is not compared.
GetImageResult_Always(buffer, pos, lastid) ==
    LET bufferindex == FindVideoBufferIndexForPosition(buffer, MSToVideoPTS(pos))
    IN  IF bufferindex >= 0
        THEN [found |-> TRUE, frame |-> GetBufferSlot(buffer, bufferindex)]
        ELSE [found |-> FALSE]

\* What MovieDecode_GetImage returns and the id it remembers: the frame
\* found for the position, if its id differs from lastvideoframeusedid.
GetImageResult(buffer, pos, lastid) ==
    LET bufferindex == FindVideoBufferIndexForPosition(buffer, MSToVideoPTS(pos))
    IN  IF bufferindex >= 0 /\ lastid # GetBufferSlot(buffer, bufferindex).id
        THEN [found |-> TRUE, frame |-> GetBufferSlot(buffer, bufferindex)]
        ELSE [found |-> FALSE]

MovieDecode_GetImage ==
    /\ mainpc = "idle"
    /\ LET r == GetImageResult(vbuffer, position, lastvideoframeusedid)
       IN  IF r.found
           THEN /\ lastvideoframeusedid' = r.frame.id
                /\ image' = r.frame.image
                /\ seenids' = {id \in seenids : id > r.frame.id} \cup {r.frame.id}
           ELSE /\ image' = NullImage
                /\ UNCHANGED <<lastvideoframeusedid, seenids>>
    /\ UNCHANGED <<envvars, position, audioposition, seeking, usepatches, vbuffer, abuffer,
                   demuxpos, mainpc, sharedvars, workervars, synced>>

\* The byte counts the mixer asks for: one second of 16-bit stereo, and
\* the same plus half a sample.
CopySizes == {176400, 176402}

\* MovieDecode_CopyAudioSamples is followed while audioposition stays below
\* seven seconds of samples.
MaxAudioPosition == 308700

\* av_get_bytes_per_sample(AV_SAMPLE_FMT_S16), a packed format.
BytesPerSample == 2

\* The loop of MovieDecode_CopyAudioSamples over frames i..endbufferindex:
\* the number of bytes it copies to mem.
RECURSIVE CopyFrames(_, _, _, _, _, _)
CopyFrames(buffer, i, endbufferindex, audiopos, size, samplesize) ==
    IF i > endbufferindex THEN 0
    ELSE LET frame == GetBufferSlot(buffer, i)
             startsample == Max(audiopos - frame.firstsampleposition, 0)
             sizeforframe == Min(size, (frame.numsamples - startsample) * samplesize)
         IN  sizeforframe
                 + CopyFrames(buffer, i + 1, endbufferindex, audiopos,
                              size - sizeforframe, samplesize)

\* A faulty MovieDecode_CopyAudioSamples: audioposition advances by the
\* samples that were copied, not by the samples that were asked for.
CopyAudioSamples_ByCopied(buffer, audiopos, size, channels) ==
    LET samplesize == BytesPerSample * channels
        startbufferindex == FindAudioBufferIndexForPosition(buffer, audiopos)
        endbufferindex == FindAudioBufferIndexForPosition(buffer, audiopos + size \div samplesize)
        mempos == IF startbufferindex # -1 /\ endbufferindex # -1
                  THEN CopyFrames(buffer, startbufferindex, endbufferindex, audiopos,
                                  size, samplesize)
                  ELSE 0
    IN  [audioposition |-> audiopos + mempos \div samplesize, mempos |-> mempos]

\* A faulty MovieDecode_CopyAudioSamples: the size of a sample does not
\* count the channels.
CopyAudioSamples_OneChannel(buffer, audiopos, size, channels) ==
    [audioposition |-> audiopos + size \div BytesPerSample, mempos |-> 0]

\* The body of MovieDecode_CopyAudioSamples once audioposition is known to
\* be set: the new audioposition and the bytes written to mem.
CopyAudioSamples(buffer, audiopos, size, channels) ==
    LET samplesize == BytesPerSample * channels
        numsamples == size \div samplesize
        startbufferindex == FindAudioBufferIndexForPosition(buffer, audiopos)
        endbufferindex == FindAudioBufferIndexForPosition(buffer, audiopos + numsamples)
        mempos == IF startbufferindex # -1 /\ endbufferindex # -1
                  THEN CopyFrames(buffer, startbufferindex, endbufferindex, audiopos,
                                  size, samplesize)
                  ELSE 0
    IN  [audioposition |-> audiopos + numsamples, mempos |-> mempos]

\* MovieDecode_CopyAudioSamples(movie, mem, size) (movie_decode.c:1172-1209),
\* called without worker->mutex.  Without an audio stream codeccontext is
\* NULL and codeccontext->channels is read through it: the process is
\* killed, or the read yields some channel count and the call goes on.
CopySamples(size) ==
    /\ mainpc = "idle"
    /\ IF audioposition = -1
          THEN UNCHANGED <<audioposition, mainpc, wpc>>
          ELSE IF ~HasAudio
          THEN \/ /\ mainpc' = "crashed" /\ wpc' = "crashed"
                  /\ UNCHANGED audioposition
               \/ \E channels \in 1..2 :
                      \E r \in {CopyAudioSamples(abuffer, audioposition, size, channels)} :
                          /\ r.audioposition <= MaxAudioPosition
                          /\ audioposition' = r.audioposition
                          /\ UNCHANGED <<mainpc, wpc>>
          ELSE \E r \in {CopyAudioSamples(abuffer, audioposition, size,
                                          AudioStream.channels)} :
                   /\ r.audioposition <= MaxAudioPosition
                   /\ audioposition' = r.audioposition
                   /\ UNCHANGED <<mainpc, wpc>>
    /\ UNCHANGED <<position, seeking, lastvideoframeusedid, usepatches, vbuffer,
                   abuffer, demuxpos, image, sharedvars, vdec, adec, wfull, histvars>>

MovieDecode_CopyAudioSamples ==
    /\ \E size \in CopySizes : CopySamples(size)
    /\ UNCHANGED envvars

\* StopDecoderThread (movie_decode.c:509-524), first part: stopping is set
\* under the mutex; the signal is sent after the mutex is released.
StopDecoderThread_Set(nextpc) ==
    /\ stopping' = TRUE
    /\ mainpc' = nextpc
    /\ UNCHANGED <<envvars, position, audioposition, seeking, lastvideoframeusedid, usepatches,
                   vbuffer, abuffer, demuxpos, image, vframequeue, vframepool,
                   aframequeue, aframepool, ainit, packetqueue, packetpool, flushing,
                   nextframeid, workervars, histvars>>

\* I_wake_one_cond(&worker->cond), then the spin on worker->stopping begins.
StopDecoderThread_Wake ==
    /\ mainpc \in {"stop_wake", "format_wake"}
    /\ wpc' = I_wake_one_cond(wpc)
    /\ mainpc' = IF mainpc = "stop_wake" THEN "stop_spin" ELSE "format_spin"
    /\ UNCHANGED <<envvars, position, audioposition, seeking, lastvideoframeusedid, usepatches,
                   vbuffer, abuffer, demuxpos, image, sharedvars, vdec, adec, wfull,
                   histvars>>

\* MovieDecode_SetImageFormat(movie, newformat) up to the spin.  A call
\* with the current format returns at once and changes nothing.
MovieDecode_SetImageFormat ==
    /\ mainpc = "idle"
    /\ \E newformat \in FormatsRequested : newformat # usepatches
    /\ StopDecoderThread_Set("format_wake")

\* A faulty FlushFrameBuffers: the frame queue is not drained.
FlushFrameBuffers_BufferOnly(buffer, framequeue, framepool) ==
    LET m1 == DequeueWholeBufferIntoPool(framepool, buffer)
    IN  [buffer |-> m1.src, framequeue |-> framequeue, framepool |-> m1.dst]

\* FlushFrameBuffers (movie_decode.c:439-443)
FlushFrameBuffers(buffer, framequeue, framepool) ==
    LET m1 == DequeueWholeBufferIntoPool(framepool, buffer)
        m2 == DequeueWholeBufferIntoPool(m1.dst, framequeue)
    IN  [buffer |-> m1.src, framequeue |-> m2.src, framepool |-> m2.dst]

\* The while loop that frees the payload of every pooled frame.
RECURSIVE FreePool(_)
FreePool(framepool) ==
    IF BufferSize(framepool) > 0 THEN FreePool(DequeueBuffer(framepool)) ELSE framepool

\* UninitialiseImages (movie_decode.c:445-463)
UninitialiseImages(buffer, framequeue, framepool) ==
    LET f == FlushFrameBuffers(buffer, framequeue, framepool)
    IN  [f EXCEPT !.framepool = FreePool(f.framepool)]

\* The rest of MovieDecode_SetImageFormat, once the worker has cleared
\* stopping: the images are freed and allocated anew and the worker thread
\* is spawned again.
MovieDecode_SetImageFormat_Finish ==
    /\ mainpc = "format_spin"
    /\ stopping = FALSE
    /\ LET u == UninitialiseImages(vbuffer, vframequeue, vframepool)
           a == DequeueWholeBufferIntoPool(aframepool, abuffer)     \* ClearAllFrames
       IN  /\ vbuffer' = u.buffer
           /\ vframequeue' = u.framequeue
           /\ vframepool' = InitialiseImages(u.framepool, 1)
           /\ abuffer' = a.src
           /\ aframepool' = a.dst
    /\ usepatches' = ~usepatches
    /\ wpc' = "snap"
    /\ mainpc' = "idle"
    /\ UNCHANGED <<envvars, position, audioposition, seeking, lastvideoframeusedid, demuxpos, image,
                   aframequeue, ainit, packetqueue, packetpool, stopping, flushing,
                   nextframeid, vdec, adec, wfull, histvars>>

\* MovieDecode_Stop(&movie) up to the spin.
MovieDecode_Stop ==
    /\ mainpc = "idle"
    /\ StopDecoderThread_Set("stop_wake")

\* The rest of MovieDecode_Stop: every ring is drained into its pool, the
\* payloads and the rings are freed, and the movie object is freed: nothing
\* of its state is left (the fields read as in a fresh calloc).
MovieDecode_Stop_Finish ==
    /\ mainpc = "stop_spin"
    /\ stopping = FALSE
    /\ LET u == UninitialiseImages(vbuffer, vframequeue, vframepool)
           a == FlushFrameBuffers(abuffer, aframequeue, aframepool)
           q == DequeueWholeBufferIntoBuffer(packetpool, packetqueue)
       IN  /\ vbuffer' = [u.buffer EXCEPT !.capacity = 0]
           /\ vframequeue' = [u.framequeue EXCEPT !.capacity = 0]
           /\ vframepool' = [u.framepool EXCEPT !.capacity = 0]
           /\ abuffer' = [a.buffer EXCEPT !.capacity = 0]
           /\ aframequeue' = [a.framequeue EXCEPT !.capacity = 0]
           /\ aframepool' = [FreePool(a.framepool) EXCEPT !.capacity = 0]
           /\ packetqueue' = [q.src EXCEPT !.capacity = 0]
           /\ packetpool' = [FreePool(q.dst) EXCEPT !.capacity = 0]
    /\ mainpc' = "stopped"
    /\ position' = 0 /\ audioposition' = 0 /\ seeking' = FALSE
    /\ lastvideoframeusedid' = 0 /\ usepatches' = FALSE /\ demuxpos' = 0
    /\ image' = NullImage /\ ainit' = FALSE /\ flushing' = FALSE /\ nextframeid' = 0
    /\ vdec' = NoFrame /\ adec' = NoFrame /\ wfull' = FALSE
    /\ synced' = FALSE /\ seenids' = {}
    /\ UNCHANGED <<envvars, stopping, wpc>>

\* ------------------------------------------------------------------------
\* DECODING WORKER THREAD (movie_decode.c:530-778)
\* wpc: "snap" (top of the loop), "flush_video", "flush_audio", "flush_end"
\* (FlushDecoding), "decode" (ReceiveFrame and what follows), "hold_full" and
\* "hold_idle" (about to call I_hold_cond), "waiting" (blocked in
\* I_hold_cond), "exit" (left the loop), "done" (thread ended), "error".
\* ------------------------------------------------------------------------
\* A faulty snapshot: the worker waits only when both pools are empty.
QueuesFull_Both(vpool, apool, audioready) ==
    BufferSize(vpool) = 0 /\ (audioready => BufferSize(apool) = 0)

\* The snapshot the loop takes under the mutex, and the branch it leads to.
\* A faulty snapshot: the audio frame pool is not looked at.
QueuesFull_VideoOnly(vpool, apool, audioready) == BufferSize(vpool) = 0

QueuesFull(vpool, apool, audioready) ==
    BufferSize(vpool) = 0 \/ (audioready /\ BufferSize(apool) = 0)

DecoderThread_Snapshot ==
    /\ wpc = "snap"
    /\ wfull' = QueuesFull(vframepool, aframepool, ainit)
    /\ wpc' = IF stopping THEN "exit"
              ELSE IF flushing THEN "flush_video"
              ELSE IF wfull' THEN "hold_full"
              ELSE "decode"
    /\ UNCHANGED <<envvars, mainvars, sharedvars, vdec, adec, histvars>>

\* FlushStream(worker, &worker->videostream): the decoder is drained and
\* flushed, then the frame queue goes back to the pool under the mutex.
FlushStream_Video ==
    /\ wpc = "flush_video"
    /\ vdec' = NoFrame
    /\ LET m == DequeueWholeBufferIntoPool(vframepool, vframequeue)
       IN  vframepool' = m.dst /\ vframequeue' = m.src
    /\ wpc' = "flush_audio"
    /\ UNCHANGED <<envvars, mainvars, aframequeue, aframepool, ainit, packetqueue, packetpool,
                   stopping, flushing, nextframeid, adec, wfull, histvars>>

FlushStream_Audio ==
    /\ wpc = "flush_audio"
    /\ adec' = NoFrame
    /\ LET m == DequeueWholeBufferIntoPool(aframepool, aframequeue)
       IN  aframepool' = m.dst /\ aframequeue' = m.src
    /\ wpc' = "flush_end"
    /\ UNCHANGED <<envvars, mainvars, vframequeue, vframepool, ainit, packetqueue, packetpool,
                   stopping, flushing, nextframeid, vdec, wfull, histvars>>

\* The end of FlushDecoding; the loop then tests the queuesfull it read
\* before the flush.
FlushDecoding_End ==
    /\ wpc = "flush_end"
    /\ flushing' = FALSE
    /\ wpc' = IF wfull THEN "hold_full" ELSE "decode"
    /\ UNCHANGED <<envvars, mainvars, vframequeue, vframepool, aframequeue, aframepool, ainit,
                   packetqueue, packetpool, stopping, nextframeid, vdec, adec, wfull,
                   histvars>>

\* A faulty ParseVideoFrame: the frame is copied to the frame queue and
\* its slot stays at the head of the pool.
ParseVideoFrame_Aliased(framequeue, framepool, id, pkt) ==
    LET frame == [PeekBuffer(framepool) EXCEPT
                      !.id = id, !.pts = VideoPTS(pkt),
                      !.duration = VideoStream.frame_duration]
    IN  [dst |-> EnqueueBuffer(framequeue, frame),
         src |-> [framepool EXCEPT !.data[1] = frame]]

\* A faulty ParseVideoFrame: the frame gets the id of the frame before.
ParseVideoFrame_StaleId(framequeue, framepool, id, pkt) ==
    LET frame == [PeekBuffer(framepool) EXCEPT
                      !.id = Max(id - 1, 0), !.pts = VideoPTS(pkt),
                      !.duration = VideoStream.frame_duration]
    IN  DequeueBufferIntoBuffer(framequeue, [framepool EXCEPT !.data[1] = frame])

\* ParseVideoFrame: the frame at the head of the pool gets the next id and
\* the decoded frame's pts and duration, and moves to the frame queue.
ParseVideoFrame(framequeue, framepool, id, pkt) ==
    LET frame == [PeekBuffer(framepool) EXCEPT
                      !.id = id, !.pts = VideoPTS(pkt),
                      !.duration = VideoStream.frame_duration]
    IN  DequeueBufferIntoBuffer(framequeue, [framepool EXCEPT !.data[1] = frame])

\* ReceiveFrame(video) succeeded.
DecoderThread_VideoFrame ==
    /\ wpc = "decode"
    /\ vdec # NoFrame
    /\ nextframeid < MaxFrameId
    /\ LET m == ParseVideoFrame(vframequeue, vframepool, nextframeid, vdec)
       IN  vframequeue' = m.dst /\ vframepool' = m.src
    /\ nextframeid' = nextframeid + 1
    /\ vdec' = NoFrame
    /\ wpc' = "snap"
    /\ UNCHANGED <<envvars, mainvars, aframequeue, aframepool, ainit, packetqueue, packetpool,
                   stopping, flushing, adec, wfull, histvars>>

\* InitialiseAudioBuffer (movie_decode.c:327-358), run by the worker on the
\* first audio frame: the three audio rings and the pooled frames.
InitialiseAudioBuffer ==
    LET buffer == InitialiseBuffer(AudioCapacity)
    IN  [buffer |-> buffer, framequeue |-> CloneBuffer(buffer),
         framepool |-> InitialiseAudioFrames(CloneBuffer(buffer), 1)]

ParseAudioFrame(framequeue, framepool, pts, numoutputsamples) ==
    LET frame == [PeekBuffer(framepool) EXCEPT !.pts = pts, !.numsamples = numoutputsamples]
    IN  DequeueBufferIntoBuffer(framequeue, [framepool EXCEPT !.data[1] = frame])

\* ReceiveFrame(video) failed and ReceiveFrame(audio) succeeded for the
\* first time: ParseAudioFrame finds framequeue.data NULL and calls
\* InitialiseAudioBuffer.  worker->mutex is not held (it is taken at line
\* 670 only), so this is a step of its own.
ParseAudioFrame_InitialiseAudioBuffer ==
    /\ wpc = "decode"
    /\ vdec = NoFrame
    /\ HasAudio
    /\ adec # NoFrame
    /\ ~ainit
    /\ abuffer' = InitialiseAudioBuffer.buffer
    /\ aframequeue' = InitialiseAudioBuffer.framequeue
    /\ aframepool' = InitialiseAudioBuffer.framepool
    /\ ainit' = TRUE
    /\ UNCHANGED <<envvars, position, audioposition, seeking, lastvideoframeusedid, usepatches,
                   vbuffer, demuxpos, mainpc, image, vframequeue, vframepool,
                   packetqueue, packetpool, stopping, flushing, nextframeid, workervars,
                   histvars>>

\* The rest of ParseAudioFrame: the frame at the head of the pool is filled
\* and moved to the frame queue under worker->mutex.
DecoderThread_AudioFrame ==
    /\ wpc = "decode"
    /\ vdec = NoFrame
    /\ HasAudio
    /\ adec # NoFrame
    /\ ainit
    /\ \E numoutputsamples \in OutSampleCounts :
          \E m \in {ParseAudioFrame(aframequeue, aframepool, AudioPTS(adec),
                                    numoutputsamples)} :
              /\ aframequeue' = m.dst
              /\ aframepool' = m.src
    /\ adec' = NoFrame
    /\ wpc' = "snap"
    /\ UNCHANGED <<envvars, position, audioposition, seeking, lastvideoframeusedid, usepatches,
                   vbuffer, abuffer, demuxpos, mainpc, image, vframequeue, vframepool, ainit,
                   packetqueue, packetpool, stopping, flushing, nextframeid, vdec, wfull,
                   histvars>>

\* A faulty SendPacket: the slot that returns to the pool is written with
\* the packet pointer of the pool's head slot.
SendPacket_Shared(pool, queue) ==
    LET m == DequeueBufferIntoBuffer(pool, queue)
        n == BufferSize(m.dst)
        pkt == GetBufferSlot(m.dst, n - 1).idx
    IN  [packetpool |-> [m.dst EXCEPT !.data[n] = [packet |-> m.dst.data[1].packet,
                                                   idx |-> -1]],
         packetqueue |-> m.src, pkt |-> pkt]

\* SendPacket: the head of the packet queue goes back to the packet pool
\* and its data to the decoder of its stream; the packet is then unref'ed.
SendPacket(pool, queue) ==
    LET m == DequeueBufferIntoBuffer(pool, queue)
        n == BufferSize(m.dst)
        pkt == GetBufferSlot(m.dst, n - 1).idx
    IN  [packetpool |-> [m.dst EXCEPT !.data[n].idx = -1], packetqueue |-> m.src,
         pkt |-> pkt]

\* ReceiveFrame(worker, &worker->audiostream) of a movie without audio:
\* avcodec_receive_frame is handed a NULL codec context and reads through
\* it.  The process is killed, or the call returns an error and ReceiveFrame
\* ends in I_Error ("FFmpeg: cannot receive frame").
DecoderThread_ReceiveFrame_NoCodec ==
    /\ wpc = "decode"
    /\ vdec = NoFrame
    /\ ~HasAudio
    /\ \E outcome \in {"crashed", "error"} : wpc' = outcome /\ mainpc' = outcome
    /\ UNCHANGED <<envvars, position, audioposition, seeking, lastvideoframeusedid,
                   usepatches, vbuffer, abuffer, demuxpos, image, sharedvars, vdec, adec,
                   wfull, histvars>>

\* Neither decoder has a frame: a packet is sent, or the worker decides to wait.
DecoderThread_SendPacket ==
    /\ wpc = "decode"
    /\ vdec = NoFrame
    /\ HasAudio
    /\ adec = NoFrame
    /\ IF BufferSize(packetqueue) > 0
       THEN LET r == SendPacket(packetpool, packetqueue)
                stream == IF r.pkt < 0 THEN -1 ELSE PacketStream(r.pkt)
            IN  /\ packetpool' = r.packetpool
                /\ packetqueue' = r.packetqueue
                /\ vdec' = IF stream = VideoStream.index THEN r.pkt ELSE vdec
                /\ adec' = IF stream = AudioStream.index THEN r.pkt ELSE adec
                /\ wpc' = IF stream = VideoStream.index \/ stream = AudioStream.index
                          THEN "snap" ELSE "error"      \* "FFmpeg: unexpected packet"
       ELSE /\ wpc' = "hold_idle"
            /\ UNCHANGED <<packetpool, packetqueue, vdec, adec>>
    /\ UNCHANGED <<envvars, mainvars, vframequeue, vframepool, aframequeue, aframepool, ainit,
                   stopping, flushing, nextframeid, wfull, histvars>>

\* I_hold_cond(&worker->cond, worker->condmutex): the worker blocks.
DecoderThread_Hold ==
    /\ wpc \in {"hold_full", "hold_idle"}
    /\ wpc' = "waiting"
    /\ UNCHANGED <<envvars, mainvars, sharedvars, vdec, adec, wfull, histvars>>

\* The loop was left: stopping is cleared under the mutex, the thread ends
\* and its local queuesfull with it.
DecoderThread_Exit ==
    /\ wpc = "exit"
    /\ stopping' = FALSE
    /\ wpc' = "done"
    /\ wfull' = FALSE
    /\ UNCHANGED <<envvars, mainvars, vframequeue, vframepool, aframequeue, aframepool, ainit,
                   packetqueue, packetpool, flushing, nextframeid, vdec, adec, histvars>>

\* ------------------------------------------------------------------------
\* Calls of the ring functions on the rings of a caller
\* ------------------------------------------------------------------------
playervars == <<mainvars, sharedvars, workervars, histvars, file, cycle, call>>

Ring_EnqueueBuffer ==
    /\ ring.outcome = "running"
    /\ ring.dst.size < ring.dst.capacity + MaxMisuse
    /\ ring' = [ring EXCEPT !.dst = RawEnqueueBuffer(ring.dst).buffer]
    /\ UNCHANGED playervars

Ring_DequeueBuffer ==
    /\ ring.outcome = "running"
    /\ ring.src.size > 0 - MaxMisuse
    /\ ring' = [ring EXCEPT !.src = RawDequeueBuffer(ring.src).buffer]
    /\ UNCHANGED playervars

Ring_DequeueBufferIntoBuffer ==
    /\ ring.outcome = "running"
    /\ ring.dst.size < ring.dst.capacity + MaxMisuse
    /\ ring.src.size > 0 - MaxMisuse
    /\ ring' \in RawDequeueBufferIntoBuffer(ring.dst, ring.src)
    /\ UNCHANGED playervars

Ring_DequeueWholeBufferIntoBuffer ==
    /\ ring.outcome = "running"
    /\ ring.dst.size < ring.dst.capacity + MaxMisuse
    /\ ring' \in RawDequeueWholeBufferIntoBuffer(ring.dst, ring.src)
    /\ UNCHANGED playervars

RingNext ==
    \/ Ring_EnqueueBuffer
    \/ Ring_DequeueBuffer
    \/ Ring_DequeueBufferIntoBuffer
    \/ Ring_DequeueWholeBufferIntoBuffer

\* Any sequence of ring calls on any pair of rings.
RingInit == file = Movie /\ ring \in RingInputs /\ cycle = NoCycle /\ call = NoCall /\ MovieDecode_Play

RingSpec == RingInit /\ [][RingNext]_vars

\* ------------------------------------------------------------------------
\* Specifications
\* ------------------------------------------------------------------------
\* The calls of a game that plays the movie.
Playback ==
    \/ MovieDecode_SetPosition
    \/ MovieDecode_Seek
    \/ MovieDecode_Update

\* The steps of the worker's loop.
DecoderLoop ==
    \/ DecoderThread_Snapshot
    \/ FlushStream_Video
    \/ FlushStream_Audio
    \/ FlushDecoding_End
    \/ DecoderThread_VideoFrame
    \/ ParseAudioFrame_InitialiseAudioBuffer
    \/ DecoderThread_AudioFrame
    \/ DecoderThread_SendPacket
    \/ DecoderThread_Hold

Worker == DecoderLoop \/ DecoderThread_Exit

Main ==
    \/ Playback
    \/ MovieDecode_GetImage
    \/ MovieDecode_CopyAudioSamples
    \/ MovieDecode_SetImageFormat
    \/ MovieDecode_SetImageFormat_Finish
    \/ MovieDecode_Stop
    \/ MovieDecode_Stop_Finish
    \/ StopDecoderThread_Wake

\* Every call and every worker step.
Next == Main \/ Worker

Spec == Init /\ [][Next]_vars

\* A game that plays the movie and draws it; the worker thread never ends.
PlayNext == Playback \/ MovieDecode_GetImage \/ DecoderLoop

PlaySpec == Init /\ [][PlayNext]_vars

\* A game that plays the movie, may change the image format and stops it.
TeardownNext ==
    \/ MovieDecode_SetPosition
    \/ MovieDecode_Update
    \/ MovieDecode_SetImageFormat
    \/ MovieDecode_SetImageFormat_Finish
    \/ MovieDecode_Stop
    \/ MovieDecode_Stop_Finish
    \/ StopDecoderThread_Wake
    \/ Worker

TeardownSpec == Init /\ [][TeardownNext]_vars

\* A game that plays the movie and feeds the mixer from it.
MixNext ==
    \/ MovieDecode_SetPosition
    \/ MovieDecode_Update
    \/ MovieDecode_CopyAudioSamples
    \/ DecoderLoop

MixSpec == Init /\ [][MixNext]_vars

\* A game whose mixer callback drives the movie's clock: in each cycle it
\* takes cycle.n samples, moves the position on by their duration in whole
\* milliseconds (integer division, as the INT64 argument requires) and
\* updates the movie.
Cycle_CopyAudioSamples ==
    /\ cycle.pc = "copy"
    /\ cycle.count < MaxCycles
    /\ CopySamples(cycle.n * BytesPerSample * AudioStream.channels)
    /\ cycle' = [cycle EXCEPT !.pc = "setposition"]
    /\ UNCHANGED <<file, ring, call>>

Cycle_SetPosition ==
    /\ cycle.pc = "setposition"
    /\ SetPosition(position + (cycle.n * 1000) \div SAMPLE_RATE)
    /\ cycle' = [cycle EXCEPT !.pc = "update"]
    /\ UNCHANGED <<file, ring, call>>

Cycle_Update ==
    /\ cycle.pc = "update"
    /\ Update
    /\ cycle' = [cycle EXCEPT !.pc = "copy", !.count = @ + 1]
    /\ UNCHANGED <<file, ring, call>>

CycleInit ==
    file = Movie /\ ring = NoRings /\ cycle \in CycleInputs /\ call = NoCall /\ MovieDecode_Play

CycleNext ==
    \/ Cycle_CopyAudioSamples
    \/ Cycle_SetPosition
    \/ Cycle_Update
    \/ DecoderLoop

CycleSpec == CycleInit /\ [][CycleNext]_vars

\* ------------------------------------------------------------------------
\* PATCH CONVERSION (movie_decode.c:197-202, 568-615)
\* ------------------------------------------------------------------------
\* An RGBA image of the codec's size: byte i of its data is a function of i
\* and of the pattern the image was drawn with.
MaxWidth == 2
MaxHeight == 510
Patterns == {1, 77}

SrcByte(img, i) == (i * img.pattern + img.pattern) % 256

\* worker->colorlut.table[CLUTINDEX(r, g, b)]: the palette index nearest to
\* a colour, here in a palette of 64 colours.
NearestColor(r, g, b) == (r \div 64) * 16 + (g \div 64) * 4 + b \div 64

WRITEUINT8(v) == <<v % 256>>

WRITEUINT32(v) ==
    <<v % 256, (v \div 256) % 256, (v \div 65536) % 256, (v \div 16777216) % 256>>

GetBytesPerPatchColumn(height) ==
    LET numpostspercolumn == (height + POST_MAX_HEIGHT - 1) \div POST_MAX_HEIGHT
    IN  height + numpostspercolumn * POST_BASE_BYTES + 1

\* The pixel of column x and row y, as the inner loop writes it.
PatchPixel(img, x, y) ==
    LET srcptr == 4 * x + (4 * img.width) * y
    IN  NearestColor(SrcByte(img, srcptr), SrcByte(img, srcptr + 1), SrcByte(img, srcptr + 2))

RECURSIVE WritePosts_NoSplit(_, _, _)
\* A faulty post loop: the column is written as one post.
WritePosts_NoSplit(img, x, y) ==
    IF y < img.height
    THEN WRITEUINT8(0) \o WRITEUINT8(img.height - y) \o WRITEUINT8(0)
            \o [k \in 1..(img.height - y) |-> PatchPixel(img, x, y + k - 1) % 256]
            \o WRITEUINT8(0)
    ELSE <<>>

RECURSIVE WritePosts(_, _, _)
\* The posts of column x from row y on (the loop "while (y < height)").
WritePosts(img, x, y) ==
    IF y < img.height
    THEN LET postend == Min(y + POST_MAX_HEIGHT, img.height)
         IN  WRITEUINT8(IF y # 0 THEN POST_MAX_HEIGHT ELSE 0)
                \o WRITEUINT8(postend - y)
                \o WRITEUINT8(0)
                \o [k \in 1..(postend - y) |-> PatchPixel(img, x, y + k - 1) % 256]
                \o WRITEUINT8(0)
                \o WritePosts(img, x, postend)
    ELSE <<>>

RECURSIVE WriteColumnOffsets(_, _)
WriteColumnOffsets(img, x) ==
    IF x < img.width
    THEN WRITEUINT32(img.width * 4 + x * GetBytesPerPatchColumn(img.height)
                        + (POST_BASE_BYTES - 1))
            \o WriteColumnOffsets(img, x + 1)
    ELSE <<>>

RECURSIVE WriteColumns(_, _)
WriteColumns(img, x) ==
    IF x < img.width
    THEN WritePosts(img, x, 0) \o WRITEUINT8(255) \o WriteColumns(img, x + 1)
    ELSE <<>>

\* ConvertRGBAToPatch(worker, src, dst): the bytes written to dst.  The frame
\* has the size of the codec context.
ConvertRGBAToPatch(img) == WriteColumnOffsets(img, 0) \o WriteColumns(img, 0)

\* The bytes AllocateVideoFrame allocates for a patch (movie_decode.c:300).
PatchBytes(img) == img.width * (4 + GetBytesPerPatchColumn(img.height))

PatchInputs ==
    {[pc |-> "convert", img |-> [width |-> w, height |-> h, pattern |-> p], dst |-> <<>>] :
        w \in 1..MaxWidth, h \in 1..MaxHeight, p \in Patterns}

Patch_ConvertRGBAToPatch ==
    /\ call.pc = "convert"
    /\ call' = [call EXCEPT !.pc = "done", !.dst = ConvertRGBAToPatch(call.img)]
    /\ UNCHANGED <<mainvars, sharedvars, workervars, histvars, file, ring, cycle>>

PatchInit ==
    file = Movie /\ ring = NoRings /\ cycle = NoCycle /\ call \in PatchInputs /\ MovieDecode_Play

PatchNext == Patch_ConvertRGBAToPatch

PatchSpec == PatchInit /\ [][PatchNext]_vars

\* Round trips through the time conversions: a number of samples converted
\* to milliseconds and back, and a number of milliseconds converted to
\* samples and back.
MaxSamples == 4410
MaxMS == 100

ConvInputs ==
    {[pc |-> "there", from |-> "samples", x |-> s, y |-> 0, z |-> 0] : s \in 0..MaxSamples}
        \cup {[pc |-> "there", from |-> "ms", x |-> ms, y |-> 0, z |-> 0] : ms \in 0..MaxMS}

Conv_SamplesToMS ==
    /\ \/ call.pc = "there" /\ call.from = "samples"
          /\ call' = [call EXCEPT !.pc = "back", !.y = SamplesToMS(call.x)]
       \/ call.pc = "back" /\ call.from = "ms"
          /\ call' = [call EXCEPT !.pc = "done", !.z = SamplesToMS(call.y)]
    /\ UNCHANGED <<mainvars, sharedvars, workervars, histvars, file, ring, cycle>>

Conv_MSToSamples ==
    /\ \/ call.pc = "there" /\ call.from = "ms"
          /\ call' = [call EXCEPT !.pc = "back", !.y = MSToSamples(call.x)]
       \/ call.pc = "back" /\ call.from = "samples"
          /\ call' = [call EXCEPT !.pc = "done", !.z = MSToSamples(call.y)]
    /\ UNCHANGED <<mainvars, sharedvars, workervars, histvars, file, ring, cycle>>

ConvInit ==
    file = Movie /\ ring = NoRings /\ cycle = NoCycle /\ call \in ConvInputs /\ MovieDecode_Play

ConvNext == Conv_SamplesToMS \/ Conv_MSToSamples

ConvSpec == ConvInit /\ [][ConvNext]_vars

\* A game that plays the movie; it seeks, and it sets positions that are
\* MAX_AUDIO_DESYNC and 1 ms more from the start.
NearPositions == {MAX_AUDIO_DESYNC, MAX_AUDIO_DESYNC + 1}

MovieDecode_SetPosition_Near ==
    /\ \E ms \in NearPositions : SetPosition(ms)
    /\ UNCHANGED envvars

SyncNext ==
    \/ MovieDecode_Seek
    \/ MovieDecode_Update
    \/ MovieDecode_SetPosition_Near
    \/ DecoderLoop

SyncSpec == Init /\ [][SyncNext]_vars

\* The same game with a movie that has audio or has none.
AudioInit ==
    \/ Opened(Movie)
    \/ file = SilentMovie /\ ring = NoRings /\ cycle = NoCycle /\ call = NoCall /\ MovieDecode_Play_NoAudio

AudioNext == MixNext \/ DecoderThread_ReceiveFrame_NoCodec

AudioSpec == AudioInit /\ [][AudioNext]_vars

\* The same game with the faster movie.
FastInit == Opened(FastMovie)

FastSpec == FastInit /\ [][PlayNext]_vars

\* A game that plays the movie and changes the image format while it plays.
FormatNext ==
    \/ Playback
    \/ MovieDecode_SetImageFormat
    \/ StopDecoderThread_Wake
    \/ MovieDecode_SetImageFormat_Finish
    \/ Worker

FormatSpec == Init /\ [][FormatNext]_vars

\* A game that plays the movie and stops it at any moment.
StopNext ==
    \/ Playback
    \/ MovieDecode_Stop
    \/ StopDecoderThread_Wake
    \/ MovieDecode_Stop_Finish
    \/ Worker

StopSpec == Init /\ [][StopNext]_vars

\* ------------------------------------------------------------------------
\* Properties
\* ------------------------------------------------------------------------
\* Every payload 1..capacity is held by exactly one of the slots.
EachOnce(slots, field, capacity) ==
    /\ Len(slots) = capacity
    /\ \A k \in 1..capacity : \E i \in 1..Len(slots) : slots[i][field] = k

\* C1: for the video stream, and for the audio stream once its rings exist,
\* the sizes of the consumer buffer, the worker's frame queue and the
\* worker's frame pool add up to the capacity the stream was allocated
\* with, in every state of playing, seeking, flushing and changing the
\* image format.
C1_FramesConserved ==
    /\ vbuffer.capacity = VideoCapacity
    /\ BufferSize(vbuffer) + BufferSize(vframequeue) + BufferSize(vframepool)
           = VideoCapacity
    /\ ainit =>
           /\ abuffer.capacity = AudioCapacity
           /\ BufferSize(abuffer) + BufferSize(aframequeue) + BufferSize(aframepool)
                  = AudioCapacity

\* The image format was changed while frames of both streams were spread
\* over the rings, and frames of both streams are spread over them again.
C1_Witness ==
    /\ usepatches
    /\ BufferSize(vbuffer) > 0 /\ BufferSize(vframequeue) > 0
    /\ ainit /\ BufferSize(abuffer) > 0 /\ BufferSize(aframepool) > 0

\* C2: every image, every sample block and every packet is held by exactly
\* one slot of its rings (pool, frame queue, consumer buffer; packet pool,
\* packet queue): none is held twice and none is lost.
C2_OneOwner ==
    /\ EachOnce(vframepool.data \o vframequeue.data \o vbuffer.data, "image",
                VideoCapacity)
    /\ ainit => EachOnce(aframepool.data \o aframequeue.data \o abuffer.data,
                         "samples", AudioCapacity)
    /\ EachOnce(packetpool.data \o packetqueue.data, "packet", NUM_PACKETS)

\* Frames and packets have gone round: the rings hold them in another
\* order than they were allocated in.
C2_Witness ==
    /\ BufferSize(vbuffer) > 0 /\ BufferSize(vframepool) > 0
    /\ PeekBuffer(vbuffer).image > PeekBuffer(vframepool).image
    /\ BufferSize(packetqueue) > 0 /\ BufferSize(packetpool) > 0
    /\ PeekBuffer(packetqueue).packet > PeekBuffer(packetpool).packet
    /\ ainit /\ BufferSize(abuffer) > 0 /\ BufferSize(aframepool) > 0
    /\ PeekBuffer(abuffer).samples > PeekBuffer(aframepool).samples

\* C3: the consumer video buffer is strictly ascending in pts from head to
\* tail, whatever positions are set, forward or backward.
C3_VideoAscending ==
    \A i \in 1..(BufferSize(vbuffer) - 1) :
        vbuffer.data[i].pts < vbuffer.data[i + 1].pts

\* The buffer holds two frames that were decoded after a seek.
C3_Witness ==
    /\ BufferSize(vbuffer) = 2
    /\ PeekBuffer(vbuffer).id > 0
    /\ ~seeking

\* C4 as stated: adjacent audio frames of the consumer buffer are gapless
\* and their firstsampleposition strictly increases.
C4_GaplessStrict ==
    \A i \in 1..(BufferSize(abuffer) - 1) :
        /\ abuffer.data[i + 1].firstsampleposition = GetAudioFrameEndSample(abuffer.data[i])
        /\ abuffer.data[i + 1].firstsampleposition > abuffer.data[i].firstsampleposition

\* C4, amended: adjacent audio frames of the consumer buffer are gapless,
\* their firstsampleposition never decreases, and it increases after every
\* frame that holds at least one sample.
C4_Gapless ==
    \A i \in 1..(BufferSize(abuffer) - 1) :
        /\ abuffer.data[i + 1].firstsampleposition = GetAudioFrameEndSample(abuffer.data[i])
        /\ abuffer.data[i + 1].firstsampleposition >= abuffer.data[i].firstsampleposition
        /\ abuffer.data[i].numsamples > 0 =>
               abuffer.data[i + 1].firstsampleposition > abuffer.data[i].firstsampleposition

\* The buffer holds a frame without samples followed by a frame with samples,
\* none of them the first frame of the movie.
C4_Witness ==
    /\ BufferSize(abuffer) = 2
    /\ abuffer.data[1].numsamples = 0 /\ abuffer.data[1].pts > 0
    /\ abuffer.data[2].numsamples > 0

\* C5: once MovieDecode_Stop has set stopping and signalled, the worker
\* can always take its next step until it has cleared stopping, so that
\* the spin of StopDecoderThread ends.
C5_StopCompletes ==
    (mainpc = "stop_spin" /\ stopping) => ENABLED Worker

\* Update sends no signal and leaves the movie and the rings as they are.
UpdateIdle == Then(MovieState, UpdateBody) = MovieState

\* C6: at position 0, before the first video frame is decoded, the worker
\* is never blocked on its condition variable in a state in which Update,
\* called tick after tick, neither signals it nor changes anything.
C6_NotWedged ==
    (position = 0 /\ nextframeid = 0 /\ demuxpos > 0 /\ wpc = "waiting") => ~UpdateIdle

\* The id of the frame the last non-null MovieDecode_GetImage returned.
LastReturned == IF seenids = {} THEN -1 ELSE CHOOSE id \in seenids : \A x \in seenids : id <= x

\* The frame MovieDecode_GetImage has just returned.
IsReturned(frame) == image' # NullImage /\ frame.image = image'

\* C7: whenever the consumer buffer holds a frame with pts <=
\* MSToVideoPTS(position) and the latest such frame is not the one the last
\* non-null MovieDecode_GetImage returned, MovieDecode_GetImage returns the
\* image of that frame; the first frame decoded after Play is such a frame.
C7_NewFrameReturned ==
    LET bufferindex == FindVideoBufferIndexForPosition(vbuffer, MSToVideoPTS(position))
    IN  (mainpc = "idle" /\ bufferindex >= 0
             /\ GetBufferSlot(vbuffer, bufferindex).id # LastReturned)
        => GetImageResult(vbuffer, position, lastvideoframeusedid).found

\* C8 as stated: MovieDecode_GetImage returns no id it has returned before
\* unless it has returned a larger id since.
C8_NoRepeatWithoutNewer ==
    mainpc = "idle" =>
        LET r == GetImageResult(vbuffer, position, lastvideoframeusedid)
        IN  r.found => r.frame.id \notin seenids

\* C8, amended: MovieDecode_GetImage never returns the id that its last
\* non-null return returned.
C8_NoImmediateRepeat ==
    [][\A i \in 1..BufferSize(vbuffer) :
           (MovieDecode_GetImage /\ IsReturned(vbuffer.data[i]))
               => vbuffer.data[i].id # LastReturned]_vars

\* MovieDecode_GetImage has returned an id and then a smaller one.
C8_Witness == Cardinality(seenids) > 1 /\ image # NullImage

C10_RetentionWindow ==
    [][\A i \in 1..BufferSize(vbuffer') :
           vbuffer'.data[i].pts < MSToVideoPTS(position' - 2000)
               => ~(MovieDecode_Update /\ mainpc' = "idle")]_vars

\* Update has dropped the frames before the window and kept two.
C10_Witness ==
    /\ synced /\ position = 6000 /\ BufferSize(vbuffer) = 2
    /\ PeekBuffer(vbuffer).pts >= MSToVideoPTS(position - 2000)

C12_MisuseAborts ==
    [][(\/ Ring_DequeueBuffer /\ ring.src.size = 0
        \/ Ring_EnqueueBuffer /\ ring.dst.size = ring.dst.capacity
        \/ /\ Ring_DequeueBufferIntoBuffer \/ Ring_DequeueWholeBufferIntoBuffer
           /\ ring.dst.slotsize # ring.src.slotsize
           /\ ring.src.size > 0)
          => /\ ring'.outcome = "fatal"
             /\ ring'.dst = ring.dst
             /\ ring'.src = ring.src]_vars

\* C13: with a movie that has no audio stream neither thread ends in a
\* crash or in I_Error: Play, the worker loop, Update and CopyAudioSamples
\* never read through the missing audio codec context.
C13_NoAudioNoFailure ==
    ~HasAudio => /\ mainpc \notin {"crashed", "error"}
                 /\ wpc \notin {"crashed", "error"}

\* C19: MovieDecode_CopyAudioSamples with audioposition = -1 changes
\* nothing; otherwise it advances audioposition by size divided by the size
\* of an output sample (2 bytes per channel), whatever it copied, and it
\* changes neither position nor any ring.
C19_CopyAdvances ==
    [][MovieDecode_CopyAudioSamples
          => /\ \/ audioposition = -1 /\ audioposition' = -1
                \/ /\ audioposition # -1
                   /\ \E size \in CopySizes :
                          audioposition' = audioposition
                              + size \div (BytesPerSample * AudioStream.channels)
             /\ position' = position
             /\ <<vbuffer, abuffer, vframequeue, vframepool, aframequeue, aframepool,
                  packetqueue, packetpool>>'
                    = <<vbuffer, abuffer, vframequeue, vframepool, aframequeue, aframepool,
                        packetqueue, packetpool>>]_vars

\* One second of samples was asked for while the audio buffer held a frame
\* that ends before it: audioposition is past the end of what was copied.
C19_Witness ==
    /\ audioposition = 2 * SAMPLE_RATE + SAMPLE_RATE
    /\ position = 0
    /\ BufferSize(abuffer) = 1
    /\ GetAudioFrameEndSample(PeekBuffer(abuffer)) = 2 * SAMPLE_RATE

\* The steps that write the shared rings or flags with worker->mutex held:
\* the write lies between I_lock_mutex(&worker->mutex) and the unlock.
UnderMutex ==
    \/ MovieDecode_Update
    \/ MovieDecode_Stop
    \/ MovieDecode_SetImageFormat
    \/ FlushStream_Video
    \/ FlushStream_Audio
    \/ FlushDecoding_End
    \/ DecoderThread_VideoFrame
    \/ DecoderThread_AudioFrame
    \/ DecoderThread_SendPacket
    \/ DecoderThread_Exit

\* C14: while the worker runs, every step that changes a ring or one of the
\* flags stopping and flushing is a step made with worker->mutex held, the
\* lazy initialisation of the audio rings included.
C14_SharedWritesLocked ==
    [][(\/ <<vbuffer, abuffer, vframequeue, vframepool, aframequeue, aframepool,
              packetqueue, packetpool>>'
                # <<vbuffer, abuffer, vframequeue, vframepool, aframequeue, aframepool,
                    packetqueue, packetpool>>
        \/ <<stopping, flushing>>' # <<stopping, flushing>>)
          => UnderMutex]_vars

\* C15: the worker decides to wait for room only when, at its snapshot,
\* both frame pools were empty (or the video pool was empty and the audio
\* rings were not initialised yet): never while only one of two initialised
\* pools is empty.
C15_WaitsOnlyBothEmpty ==
    [][(DecoderThread_Snapshot /\ wfull')
          => /\ BufferSize(vframepool) = 0
             /\ ainit => BufferSize(aframepool) = 0]_vars

\* C15 (amended): the worker enters I_hold_cond only (a) after a snapshot
\* at which the video pool was empty or the initialised audio pool was
\* empty, or (b) when neither decoder had a frame and the packet queue was
\* empty; a snapshot with room in the video pool and in the initialised
\* audio pool never leads to a wait for room.
C15_WaitsOnEitherEmpty ==
    [][/\ DecoderThread_Snapshot
          => (wfull' <=> \/ BufferSize(vframepool) = 0
                         \/ ainit /\ BufferSize(aframepool) = 0)
       /\ (wpc' = "hold_full" /\ wpc # "hold_full") => wfull'
       /\ (wpc' = "hold_idle" /\ wpc # "hold_idle")
             => vdec = NoFrame /\ adec = NoFrame /\ BufferSize(packetqueue) = 0
       /\ (wpc' = "waiting" /\ wpc # "waiting") => wpc \in {"hold_full", "hold_idle"}]_vars

\* The worker waits for room with an empty video pool while the pool of
\* the initialised audio rings still holds a frame.
C15_Witness ==
    /\ wpc = "waiting" /\ wfull
    /\ BufferSize(vframepool) = 0
    /\ ainit /\ BufferSize(aframepool) > 0

\* The consumer video buffer holds the frame whose payload is img.
InVideoBuffer(buffer, img) ==
    \E i \in 1..BufferSize(buffer) : buffer.data[i].image = img

\* C16: the pointer MovieDecode_GetImage returned stays valid until the
\* next MovieDecode_Update: it is the payload of a frame of the consumer
\* buffer, no step but Update changes the consumer buffer, and the worker,
\* which writes pixel data only into the frame at the head of the video
\* pool, never writes into that payload.
C16_ImageStaysValid ==
    [][/\ (MovieDecode_GetImage /\ image' # NullImage) => InVideoBuffer(vbuffer', image')
       /\ vbuffer' = vbuffer \/ MovieDecode_Update
       /\ (image # NullImage /\ InVideoBuffer(vbuffer, image) /\ DecoderThread_VideoFrame)
             => PeekBuffer(vframepool).image # image]_vars

\* GetImage has returned a frame of the buffer and the worker is about to
\* write the next decoded frame into the head of the pool.
C16_Witness ==
    /\ image # NullImage /\ InVideoBuffer(vbuffer, image)
    /\ wpc = "decode" /\ vdec # NoFrame /\ nextframeid < MaxFrameId
    /\ BufferSize(vframepool) > 0

\* The rings f of a stream after FlushFrameBuffers: buffer and queue are
\* empty and the pool holds all capacity slots, each payload once.
AllInPool(f, field, capacity) ==
    /\ BufferSize(f.buffer) = 0
    /\ BufferSize(f.framequeue) = 0
    /\ BufferSize(f.framepool) = capacity
    /\ EachOnce(f.framepool.data, field, capacity)

\* C17: when MovieDecode_Stop or MovieDecode_SetImageFormat frees the
\* payloads, the pool it empties holds every slot of the stream, whatever
\* the distribution of the slots over pool, queue and buffer was: each
\* image (and at Stop each sample buffer) is freed exactly once, and the
\* rings are left empty.
C17_FreedOnce ==
    [][/\ (MovieDecode_Stop_Finish \/ MovieDecode_SetImageFormat_Finish)
             => AllInPool(FlushFrameBuffers(vbuffer, vframequeue, vframepool), "image",
                          VideoCapacity)
       /\ (MovieDecode_Stop_Finish /\ ainit)
             => AllInPool(FlushFrameBuffers(abuffer, aframequeue, aframepool), "samples",
                          AudioCapacity)
       /\ MovieDecode_Stop_Finish
             => /\ BufferSize(vframepool') = 0 /\ BufferSize(aframepool') = 0
                /\ BufferSize(vbuffer') = 0 /\ BufferSize(vframequeue') = 0]_vars

\* The format change has freed and reallocated the images of a movie of
\* which frames had been decoded, and audio frames are still queued.
C17_Witness ==
    /\ usepatches /\ mainpc = "idle" /\ wpc = "snap"
    /\ nextframeid >= 2
    /\ BufferSize(vframepool) = VideoCapacity
    /\ BufferSize(aframequeue) > 0

\* C18: nextframeid never decreases while the movie plays, and every
\* decoded frame gets an id no frame got before: the frame ParseVideoFrame
\* queues has the id nextframeid, which is then incremented, also after
\* seeks, flushes and a change of the image format.
C18_IdsUnique ==
    [][/\ nextframeid' >= nextframeid
       /\ DecoderThread_VideoFrame
             => /\ nextframeid' = nextframeid + 1
                /\ GetBufferSlot(vframequeue', BufferSize(vframequeue') - 1).id = nextframeid
                /\ \A i \in 1..BufferSize(vframequeue) : vframequeue.data[i].id < nextframeid
                /\ \A i \in 1..BufferSize(vbuffer) : vbuffer.data[i].id < nextframeid]_vars

\* The image format was changed after two frames had been decoded, and
\* the frame decoded after the change has the next id.
C18_Witness ==
    /\ usepatches /\ nextframeid = MaxFrameId
    /\ BufferSize(vframequeue) = 1 /\ BufferSize(vbuffer) = 0
    /\ PeekBuffer(vframequeue).id = MaxFrameId - 1

\* C20 as stated: after every cycle of CopyAudioSamples of N samples,
\* SetPosition(position + N*1000/SAMPLE_RATE) and Update, for any N >= 1,
\* SamplesToMS(audioposition) and position differ by at most 1 ms.
C20_DriftWithinOneMS ==
    (cycle.pc = "copy" /\ cycle.count > 0)
        => Abs(SamplesToMS(audioposition) - position) <= 1

\* C20 as the code has it: after every cycle the two are equal when N is a
\* whole number of milliseconds (N*1000 a multiple of SAMPLE_RATE).  For
\* any other N the position falls behind by up to 1 ms in each cycle, and
\* after every cycle audioposition is unset or within MAX_AUDIO_DESYNC of
\* position.
C20_DriftWholeMS ==
    (cycle.pc = "copy" /\ cycle.count > 0)
        => /\ (cycle.n * 1000) % SAMPLE_RATE = 0
                 => audioposition # -1 /\ SamplesToMS(audioposition) = position
           /\ audioposition # -1
                 => Abs(SamplesToMS(audioposition) - position)
                        <= Min(cycle.count, MAX_AUDIO_DESYNC)

\* Three cycles of a whole number of milliseconds have run and the clocks agree.
C20_Witness ==
    /\ cycle.pc = "copy" /\ cycle.count >= 3
    /\ (cycle.n * 1000) % SAMPLE_RATE = 0
    /\ position > 0
    /\ SamplesToMS(audioposition) = position

\* The audio position was dropped after the drift passed MAX_AUDIO_DESYNC.
C20_Resynced ==
    /\ cycle.pc = "copy" /\ cycle.count > 0
    /\ (cycle.n * 1000) % SAMPLE_RATE # 0
    /\ audioposition = -1

\* C21 as stated: for every number of samples s >= 0,
\* MSToSamples(SamplesToMS(s)) differs from s by at most 1 sample.
C21_RoundTripOneSample ==
    (call.pc = "done" /\ call.from = "samples") => Abs(call.z - call.x) <= 1

\* C21 as the code has it: MSToSamples(SamplesToMS(s)) differs from s by at
\* most half a millisecond of samples (22 at SAMPLE_RATE 44100), and
\* SamplesToMS(MSToSamples(ms)) equals ms.
C21_RoundTripHalfMS ==
    call.pc = "done"
        => /\ call.from = "samples" => Abs(call.z - call.x) <= SAMPLE_RATE \div 2000
           /\ call.from = "ms" => call.z = call.x

\* A round trip from samples that ends half a millisecond away.
C21_Witness ==
    /\ call.pc = "done" /\ call.from = "samples"
    /\ call.x > SAMPLE_RATE \div 1000
    /\ Abs(call.z - call.x) = SAMPLE_RATE \div 2000

\* What a reader of the patch finds from byte offset o of dst on: the posts
\* up to the first byte that is not a post header, and that byte's offset.
RECURSIVE ReadPosts(_, _, _)
ReadPosts(dst, o, posts) ==
    IF o + 1 > Len(dst) \/ dst[o + 1] = 255 \/ o + 4 + dst[o + 2] > Len(dst)
    THEN [posts |-> posts, end |-> o]
    ELSE ReadPosts(dst, o + dst[o + 2] + POST_BASE_BYTES,
                   Append(posts, [top_delta |-> dst[o + 1], length |-> dst[o + 2],
                                  unused |-> dst[o + 3], first |-> o + 3,
                                  trail |-> dst[o + 4 + dst[o + 2]]]))

\* C22: for every height h >= 1 each column is ceil(h/254) posts; every post
\* but the last has length 254 and the last the remainder; the first has
\* top_delta 0 and the later ones 254; each is followed by one unused byte,
\* the column ends with 0xFF, and a column takes GetBytesPerPatchColumn
\* bytes.
C22_ColumnPosts ==
    call.pc = "done" =>
        /\ Len(call.dst) = PatchBytes(call.img)
        /\ \A x \in 0..(call.img.width - 1) :
              \E h \in {call.img.height} :
              \E n \in {(h + 253) \div 254} :
              \E start \in {call.img.width * 4 + x * GetBytesPerPatchColumn(h)} :
              \E r \in {ReadPosts(call.dst, start, <<>>)} :
                  /\ Len(r.posts) = n
                  /\ \A i \in 1..n :
                        /\ r.posts[i].length = IF i < n THEN 254 ELSE h - 254 * (n - 1)
                        /\ r.posts[i].top_delta = IF i = 1 THEN 0 ELSE 254
                        /\ r.posts[i].unused = 0
                        /\ r.posts[i].trail = 0
                        /\ \A k \in 1..r.posts[i].length :
                              call.dst[r.posts[i].first + k]
                                  = PatchPixel(call.img, x, 254 * (i - 1) + k - 1)
                  /\ r.end = start + GetBytesPerPatchColumn(h) - 1
                  /\ call.dst[r.end + 1] = 255
                  /\ h <= 254 => n = 1
                  /\ (254 < h /\ h <= 508) => n = 2

\* A column of more than 254 and at most 508 rows was written as two posts
\* with top_delta 0 and 254.
C22_Witness ==
    /\ call.pc = "done"
    /\ call.img.height > 254 /\ call.img.height <= 508
    /\ \E r \in {ReadPosts(call.dst, call.img.width * 4, <<>>)} :
          /\ Len(r.posts) = 2
          /\ r.posts[1].top_delta = 0 /\ r.posts[2].top_delta = 254
          /\ r.posts[1].length = 254 /\ r.posts[2].length = call.img.height - 254

\* The ids of the frames of a video ring, and the pts of the frames of an
\* audio ring.
FrameIds(buffer) == {GetBufferSlot(buffer, i).id : i \in 0..(BufferSize(buffer) - 1)}
FramePTSs(buffer) == {GetBufferSlot(buffer, i).pts : i \in 0..(BufferSize(buffer) - 1)}

\* C23: flush isolation.  While flushing is set no step puts a frame into
\* a consumer buffer; the step that sets flushing (Seek) leaves the packet
\* queue empty; the step that clears flushing leaves both worker frame
\* queues empty and no frame ready in either decoder.  So whatever the
\* worker was producing when Seek ran is discarded before Update polls
\* again.
C23_FlushIsolation ==
    [][/\ flushing
            => /\ FrameIds(vbuffer') \subseteq FrameIds(vbuffer)
               /\ BufferSize(vbuffer') <= BufferSize(vbuffer)
               /\ FramePTSs(abuffer') \subseteq FramePTSs(abuffer)
               /\ BufferSize(abuffer') <= BufferSize(abuffer)
       /\ (~flushing /\ flushing') => BufferSize(packetqueue') = 0
       /\ (flushing /\ ~flushing')
            => /\ BufferSize(vframequeue') = 0 /\ BufferSize(aframequeue') = 0
               /\ vdec' = NoFrame /\ adec' = NoFrame]_vars

\* Seek ran while the worker was producing a frame: Update polls the frame
\* queue just before it seeks, so a frame that is in the worker's frame
\* queue while flushing is set was queued after the Seek.  The consumer
\* buffer is empty.
C23_Witness ==
    /\ flushing /\ seeking
    /\ wpc = "snap"
    /\ BufferSize(vframequeue) > 0
    /\ BufferSize(vbuffer) = 0
    /\ synced

\* The movie when UpdateSeeking has updated the seeking flag: after the
\* packets were read, the frame queues polled and a finished seek ended.
AfterSeekingUpdate ==
    Then(Then(Then(MovieState, ReadPackets), PollFrameQueues), StopSeeking)

\* The position's PTS lies in [first_frame.pts, last_frame.end_pts).
PositionInBuffer(s) ==
    /\ BufferSize(s.vbuffer) > 0
    /\ \E pts \in {MSToVideoPTS(s.position)} :
          /\ GetBufferSlot(s.vbuffer, 0).pts <= pts
          /\ pts < GetVideoFrameEndPTS(GetBufferSlot(s.vbuffer, BufferSize(s.vbuffer) - 1))

\* C24: Update initiates a Seek exactly when, after the seeking-flag
\* update, the position is not in the video buffer, seeking and flushing
\* are clear and the video buffer is not empty.  No Seek is initiated
\* while a flush is pending, and after a Seek both consumer buffers and
\* the packet queue are empty and seeking and flushing are set.
C24_SeekExactlyWhen ==
    [][(mainpc = "idle" /\ synced' /\ MovieDecode_Update) =>
          \E s \in {AfterSeekingUpdate} :
          \E sought \in {(seeking' /\ ~s.seeking) \/ (flushing' /\ ~s.flushing)} :
              /\ sought <=> ~(PositionInBuffer(s) \/ s.seeking \/ s.flushing
                                  \/ BufferSize(s.vbuffer) = 0)
              /\ flushing => ~sought
              /\ sought => /\ BufferSize(vbuffer') = 0
                            /\ BufferSize(abuffer') = 0
                            /\ BufferSize(packetqueue') = 0
                            /\ seeking' /\ flushing']_vars

\* Update has just sought: the buffers and the packet queue are empty,
\* seeking and flushing are set, and frames went back to the worker's pool.
C24_Witness ==
    /\ synced /\ seeking /\ flushing
    /\ BufferSize(vbuffer) = 0 /\ BufferSize(packetqueue) = 0
    /\ ainit /\ BufferSize(abuffer) = 0
    /\ BufferSize(vframepool) + BufferSize(vframequeue) = vframepool.capacity
    /\ nextframeid > 0
    /\ wpc # "flush_video" /\ wpc # "flush_audio" /\ wpc # "flush_end"

\* C25: after every Update audioposition is unset or within
\* MAX_AUDIO_DESYNC (200 ms) of position; SetPosition and Seek set
\* audioposition to MSToSamples(position) only when it is unset and leave
\* it unchanged otherwise.
C25_AudioSync ==
    [][/\ (mainpc = "idle" /\ synced' /\ MovieDecode_Update)
            => \/ audioposition' = -1
               \/ Abs(SamplesToMS(audioposition') - position') <= MAX_AUDIO_DESYNC
       /\ (mainpc = "idle" /\ ~synced'
              /\ (MovieDecode_Seek \/ MovieDecode_SetPosition_Near))
            => audioposition' = IF audioposition = -1 THEN MSToSamples(position')
                                ELSE audioposition]_vars

\* An Update has kept an audio position that is exactly MAX_AUDIO_DESYNC
\* away from the position.
C25_Witness ==
    /\ synced /\ mainpc = "idle"
    /\ audioposition # -1
    /\ Abs(SamplesToMS(audioposition) - position) = MAX_AUDIO_DESYNC

\* The packet of a slot is unreferenced, or it is a packet of the video or
\* of the audio stream.
Expected(slot) ==
    slot.idx >= 0 => PacketStream(slot.idx) \in {VideoStream.index, AudioStream.index}

\* C26: the "unexpected packet" abort of SendPacket is unreachable.  Every
\* packet in the packet queue is a packet of the video or of the audio
\* stream, every other packet that was read lies unreferenced in the
\* pool, and the worker never ends in I_Error.
C26_NoUnexpectedPacket ==
    /\ \A i \in 0..(BufferSize(packetqueue) - 1) :
          GetBufferSlot(packetqueue, i).idx >= 0 /\ Expected(GetBufferSlot(packetqueue, i))
    /\ \A i \in 0..(BufferSize(packetpool) - 1) : Expected(GetBufferSlot(packetpool, i))
    /\ wpc # "error"

\* Packet 2, of the third stream, was read and passed over: the packet
\* read after it is the last of the queue.
C26_Witness ==
    /\ demuxpos = 4
    /\ BufferSize(packetqueue) > 0
    /\ GetBufferSlot(packetqueue, BufferSize(packetqueue) - 1).idx = 3
    /\ PacketStream(2) \notin {VideoStream.index, AudioStream.index}
    /\ wpc # "error" /\ mainpc = "idle"

\* The samples buffered from a position to the end of the last frame of
\* the audio buffer.
SamplesBuffered(buffer, audiopos) ==
    GetAudioFrameEndSample(GetBufferSlot(buffer, BufferSize(buffer) - 1)) - audiopos

\* C27 as stated: when audioposition lies inside a buffered audio frame,
\* CopyAudioSamples copies min(requested samples, samples buffered from
\* audioposition to the end of the last buffered frame), also when the
\* buffer ends before or exactly at audioposition + requested.
C27_CopiesWhatIsBuffered ==
    [][(mainpc = "idle" /\ audioposition # -1 /\ audioposition' > audioposition
          /\ FindAudioBufferIndexForPosition(abuffer, audioposition) # -1)
         => \A size \in CopySizes :
              \E samplesize \in {BytesPerSample * AudioStream.channels} :
              \E r \in {CopyAudioSamples(abuffer, audioposition, size, AudioStream.channels)} :
                  r.audioposition = audioposition'
                      => r.mempos \div samplesize
                            = Min(size \div samplesize,
                                  SamplesBuffered(abuffer, audioposition))]_vars

\* The rings of the player.
Rings ==
    <<vbuffer, vframequeue, vframepool, abuffer, aframequeue, aframepool,
      packetqueue, packetpool>>

\* C28: in every state every ring holds at most capacity slots, and no
\* step can take a slot from an empty ring or add one to a full ring: the
\* rings of a stream never hold more slots together than one of them has
\* room for, the packet rings likewise, and whenever the worker is about
\* to receive a frame the pool it takes the frame's slot from is not
\* empty.
C28_RingsInBounds ==
    /\ \A i \in 1..Len(Rings) : BufferSize(Rings[i]) <= Rings[i].capacity
    /\ BufferSize(vbuffer) + BufferSize(vframequeue) + BufferSize(vframepool)
          <= vbuffer.capacity
    /\ vframequeue.capacity = vbuffer.capacity /\ vframepool.capacity = vbuffer.capacity
    /\ BufferSize(abuffer) + BufferSize(aframequeue) + BufferSize(aframepool)
          <= abuffer.capacity
    /\ aframequeue.capacity = abuffer.capacity /\ aframepool.capacity = abuffer.capacity
    /\ BufferSize(packetqueue) + BufferSize(packetpool) <= packetqueue.capacity
    /\ packetpool.capacity = packetqueue.capacity
    /\ wpc = "decode"
          => /\ BufferSize(vframepool) > 0
             /\ ainit => BufferSize(aframepool) > 0

\* The worker is about to take the last free video frame while the
\* consumer buffer and the frame queue hold all the others, after the
\* image format was changed.
C28_Witness ==
    /\ wpc = "decode" /\ vdec # NoFrame
    /\ BufferSize(vframepool) = 1
    /\ BufferSize(vbuffer) > 0
    /\ usepatches
    /\ ainit /\ BufferSize(aframepool) < aframepool.capacity

\* Work is pending for the worker: it has to stop, it has to flush, or
\* there is a packet to send and a free frame in each initialised pool.
WorkPending ==
    \/ stopping
    \/ flushing
    \/ /\ BufferSize(packetqueue) > 0
       /\ BufferSize(vframepool) > 0
       /\ ainit => BufferSize(aframepool) > 0

\* The main thread has no signal left to send: it spins in
\* StopDecoderThread, or it is between calls and Update neither signals nor
\* changes anything.
NoSignalToCome ==
    \/ mainpc = "stop_spin"
    \/ mainpc = "idle" /\ UpdateIdle

\* C29: no wakeup is lost.  The worker is never blocked in I_hold_cond with
\* work pending for it and no signal still to come from the main thread.
C29_NoLostWakeup ==
    (wpc = "waiting" /\ WorkPending) => ~NoSignalToCome


\* MovieDecode_GetDuration: the length of the file in ms.
MovieDecode_GetDuration == VideoPTSToMS(VideoStream.nb_frames * VideoStream.frame_duration)

\* A game that plays the movie and moves the position between the start and
\* a time one second past the end of the file.
FarPositions == {0, MovieDecode_GetDuration + 1000}

MovieDecode_SetPosition_Far ==
    /\ \E ms \in FarPositions : SetPosition(ms)
    /\ UNCHANGED envvars

EofNext ==
    \/ MovieDecode_SetPosition_Far
    \/ MovieDecode_Update
    \/ DecoderLoop

EofSpec == Init /\ [][EofNext]_vars

\* Nothing moves any more while the position is held: the main thread is
\* between calls, Update neither signals nor changes anything, and the
\* worker is blocked in I_hold_cond.
Quiescent == mainpc = "idle" /\ UpdateIdle /\ wpc = "waiting"

\* C30 at large: with the position held at a time inside the movie's
\* duration, Update called every tick and a fair worker, the player never
\* comes to rest before the consumer video buffer covers the position and
\* seeking is clear.
C30_SeekRecovers ==
    (Quiescent /\ 0 <= position /\ position < MovieDecode_GetDuration)
        => (PositionInBuffer(MovieState) /\ ~seeking)

\* C30: seeking always recovers, also from an empty video buffer with
\* seeking set and the demuxer at the end of the file.  With the position
\* held at a time inside the movie's duration, the player never comes to
\* rest in such a state with seeking still set; no wakeup was lost there,
\* the worker has nothing left to do.
C30_RecoversAtEndOfFile ==
    (Quiescent /\ ~WorkPending /\ 0 <= position /\ position < MovieDecode_GetDuration
        /\ demuxpos = NumPackets /\ BufferSize(vbuffer) = 0)
        => ~seeking

====
